---- MODULE Spec2Model ----
(***************************************************************************)
(* Qualification-and-routing pipeline of sponsor-pathfinder:               *)
(*   - the rate-limited fetcher and the bounded same-host crawler          *)
(*     (src/qualification/crawler.ts),                                     *)
(*   - the signal analyzer (src/qualification/analyzer.ts),                *)
(*   - the contact extractor (src/contacts/extractor.ts),                  *)
(*   - the contact-path selector (src/ranking/pathSelector.ts).            *)
(* Strings are TLC strings; Len, SubSeq and \o act on them character by    *)
(* character, so includes/startsWith/split/toLowerCase are computed.       *)
(***************************************************************************)
EXTENDS Integers, Sequences, FiniteSets, TLC

VARIABLES
    \* ---- fetcher (crawler.ts, module state and the frame of fetchPage)
    clock,            \* Date.now(), in ms
    lastRequestTime,  \* crawler.ts:4
    pc,               \* position inside fetchPage / rateLimitedFetch
    wakeAt,           \* due time of the rate-limit setTimeout
    fetchUrl,         \* argument of the running fetchPage call
    fetchRet,         \* value returned by the last fetchPage call
    settled,          \* what the request of the running call did so far
    requestCount,     \* number of outgoing requests started by the process
    \* ---- crawler (frame of crawlCompanyWebsite)
    cpc,              \* position inside crawlCompanyWebsite
    normalizedBase,
    results,          \* the Map, as its entries in insertion order
    pathsToFetch,
    idx,              \* index of the for-of loop over pathsToFetch
    crawlRequests,    \* fetchPage calls issued by the current crawl
    attempted,        \* the URLs the current crawl called fetchPage with, in order
    crawls,           \* crawls started so far
    \* ---- qualify command (index.ts), for one company
    qpc,              \* position inside the loop body of the qualify action
    company,          \* the row of the companies table: [name, websiteUrl, score, status]
    qCrawlResults,    \* the Map crawlCompanyWebsite returned
    dbSignals,        \* rows of sponsorship_signals for the company
    qContacts,        \* what extractContacts returned
    contactPaths,     \* rows of contact_paths for the company, in insertion order
    dbPeople,         \* rows of people for the company, in insertion order
    readContacts,     \* what getCompanyContacts returned to selectBestPaths
    qRankedPaths,     \* rankedPaths of selectBestPaths after the sort
    selection,        \* what selectBestPaths returned
    \* ---- one address handed to extractEmails
    address,
    emailContact,     \* what extractEmails made of it
    \* ---- the people step of the qualify command, and its second run
    sitePeople,       \* what extractPeople returned
    wikiResponse,     \* what the Wikipedia API call of the step did
    runs,             \* runs of the qualify command for the company so far
    earlier,          \* what the extractors returned in the run before
    \* ---- the tables of the store and the save function that runs
    store,            \* per table of TABLES, its rows in rowid order
    saving,           \* the save call: [phase, table, companyId, rows, inserted]
    snapshot,         \* the store when the save call began
    storeRuns,        \* qualify runs that began to save so far
    \* ---- rateLimitedFetch invocations that overlap
    calls             \* per invocation, its frame: [pc, wakeAt, startedAt]

fetchVars == <<clock, lastRequestTime, pc, wakeAt, fetchUrl, fetchRet, settled, requestCount>>
crawlVars == <<cpc, normalizedBase, results, pathsToFetch, idx, crawlRequests, attempted,
              crawls>>
qualifyVars == <<qpc, company, qCrawlResults, dbSignals, qContacts, contactPaths, dbPeople,
                 readContacts, qRankedPaths, selection>>
emailVars == <<address, emailContact>>
peopleVars == <<sitePeople, wikiResponse, runs, earlier>>
storeVars == <<store, saving, snapshot, storeRuns>>
concVars == <<calls>>

-----------------------------------------------------------------------------
(* String primitives: the String.prototype methods the code calls *)

StartsWith(s, p) == Len(s) >= Len(p) /\ SubSeq(s, 1, Len(p)) = p

EndsWith(s, p) == Len(s) >= Len(p) /\ SubSeq(s, Len(s) - Len(p) + 1, Len(s)) = p

\* s.includes(t)
Includes(s, t) == \E i \in 0..(Len(s) - Len(t)) : SubSeq(s, i + 1, i + Len(t)) = t

\* s.indexOf(t), 0-based, -1 when absent
IndexOf(s, t) ==
    LET at == {i \in 0..(Len(s) - Len(t)) : SubSeq(s, i + 1, i + Len(t)) = t}
    IN IF at = {} THEN -1 ELSE CHOOSE i \in at : \A j \in at : i <= j

UpperToLower ==
    [c \in {"A", "B", "C", "D", "E", "F", "G", "H", "I", "J", "K", "L", "M",
            "N", "O", "P", "Q", "R", "S", "T", "U", "V", "W", "X", "Y", "Z"} |->
        CASE c = "A" -> "a" [] c = "B" -> "b" [] c = "C" -> "c" [] c = "D" -> "d"
          [] c = "E" -> "e" [] c = "F" -> "f" [] c = "G" -> "g" [] c = "H" -> "h"
          [] c = "I" -> "i" [] c = "J" -> "j" [] c = "K" -> "k" [] c = "L" -> "l"
          [] c = "M" -> "m" [] c = "N" -> "n" [] c = "O" -> "o" [] c = "P" -> "p"
          [] c = "Q" -> "q" [] c = "R" -> "r" [] c = "S" -> "s" [] c = "T" -> "t"
          [] c = "U" -> "u" [] c = "V" -> "v" [] c = "W" -> "w" [] c = "X" -> "x"
          [] c = "Y" -> "y" [] c = "Z" -> "z"]

LowerChar(c) == IF c \in DOMAIN UpperToLower THEN UpperToLower[c] ELSE c

\* s.toLowerCase(), character by character (split in halves)
RECURSIVE ToLowerCase(_)
ToLowerCase(s) ==
    IF Len(s) = 0 THEN ""
    ELSE IF Len(s) = 1 THEN LowerChar(s)
    ELSE ToLowerCase(SubSeq(s, 1, Len(s) \div 2))
           \o ToLowerCase(SubSeq(s, Len(s) \div 2 + 1, Len(s)))

\* s.split(sep): the segments of s between occurrences of the one-character sep
RECURSIVE Split(_, _)
Split(s, sep) ==
    LET i == IndexOf(s, sep) IN
    IF i < 0 THEN <<s>>
    ELSE <<SubSeq(s, 1, i)>> \o Split(SubSeq(s, i + 2, Len(s)), sep)

\* Array.from(new Set(seq)): insertion order, first occurrence kept
RECURSIVE Distinct(_)
Distinct(seq) ==
    IF seq = <<>> THEN <<>>
    ELSE LET init == Distinct(SubSeq(seq, 1, Len(seq) - 1))
             last == seq[Len(seq)]
         IN IF \E i \in 1..Len(init) : init[i] = last THEN init ELSE Append(init, last)

Range(seq) == {seq[i] : i \in 1..Len(seq)}

-----------------------------------------------------------------------------
(* URLs: what `new URL(...)` yields for the hrefs of the model.  A URL is   *)
(* the record of the parts the crawler reads (hostname, pathname).  Dot     *)
(* segments, percent-encoding, ports in the serialisation and userinfo are  *)
(* outside the href universe of the model.                                  *)

\* a const binding: the value is computed once and named in the body
Bind(value, Body(_)) == CHOOSE out \in {Body(bound) : bound \in {value}} : TRUE

Min(S) == CHOOSE x \in S : \A y \in S : x <= y

\* the prefix of s before the first character of seps
BeforeAny(s, seps) ==
    LET at == {IndexOf(s, c) : c \in seps} \ {-1}
    IN IF at = {} THEN s ELSE SubSeq(s, 1, Min(at))

RECURSIVE StripLeadingSlashes(_)
StripLeadingSlashes(s) ==
    IF StartsWith(s, "/") THEN StripLeadingSlashes(SubSeq(s, 2, Len(s))) ELSE s

InvalidUrl == [ok |-> FALSE]

\* scheme of an absolute URL string, lower-cased; "" when s has none
SchemeOf(s) ==
    LET i == IndexOf(s, ":")
    IN IF i > 0 /\ BeforeAny(SubSeq(s, 1, i), {"/", "?", "#", " "}) = SubSeq(s, 1, i)
       THEN ToLowerCase(SubSeq(s, 1, i))
       ELSE ""

\* new URL(s) for an absolute URL string; InvalidUrl when the constructor throws
ParseUrl(s) ==
    Bind(SchemeOf(s), LAMBDA scheme :
      IF scheme = "" THEN InvalidUrl
      ELSE IF scheme \in {"http", "https"}
      THEN Bind(StripLeadingSlashes(SubSeq(s, Len(scheme) + 2, Len(s))), LAMBDA after :
           Bind(BeforeAny(after, {"/", "?", "#"}), LAMBDA authority :
           Bind(ToLowerCase(BeforeAny(authority, {":"})), LAMBDA host :
           Bind(BeforeAny(SubSeq(after, Len(authority) + 1, Len(after)), {"?", "#"}),
                LAMBDA path :
             IF host = "" \/ Includes(host, " ")
             THEN InvalidUrl
             ELSE [ok |-> TRUE, protocol |-> scheme, hostname |-> host,
                   pathname |-> IF path = "" THEN "/" ELSE path]))))
      ELSE [ok |-> TRUE, protocol |-> scheme, hostname |-> "",
            pathname |-> BeforeAny(SubSeq(s, Len(scheme) + 2, Len(s)), {"?", "#"})])

\* the directory of a pathname: up to and including its last "/"
RECURSIVE DirOf(_)
DirOf(path) ==
    IF path = "" \/ EndsWith(path, "/") THEN path
    ELSE DirOf(SubSeq(path, 1, Len(path) - 1))

\* new URL(href, base) for a parsed http(s) base
ResolveUrl(href, base) ==
    IF SchemeOf(href) # "" THEN ParseUrl(href)
    ELSE IF StartsWith(href, "//") THEN ParseUrl(base.protocol \o ":" \o href)
    ELSE IF StartsWith(href, "/")
         THEN [base EXCEPT !.pathname = BeforeAny(href, {"?", "#"})]
    ELSE LET p == BeforeAny(href, {"?", "#"})
         IN IF p = "" THEN base
            ELSE [base EXCEPT !.pathname = DirOf(base.pathname) \o p]

\* URL.prototype.toString(), without query and fragment (never read back)
SerializeUrl(u) ==
    IF u.protocol \in {"http", "https"}
    THEN u.protocol \o "://" \o u.hostname \o u.pathname
    ELSE u.protocol \o ":" \o u.pathname

\* crawler.ts normalizeUrl
NormalizeUrl(baseUrl, path) ==
    IF StartsWith(path, "http://") \/ StartsWith(path, "https://")
    THEN path
    ELSE Bind(ParseUrl(baseUrl), LAMBDA base :
           IF ~base.ok THEN ""
           ELSE Bind(ResolveUrl(path, base), LAMBDA u :
                  IF ~u.ok THEN "" ELSE SerializeUrl(u)))

-----------------------------------------------------------------------------
(* Documents: a response body as cheerio and the regular expressions read  *)
(* it.  html is the markup, text the body text (scripts removed, white     *)
(* space collapsed), hrefs the href of the a[href] elements in document    *)
(* order, bodyEmails the matches of emailRegex in the body text, forms the *)
(* form elements as [action, hasEmailField, hasTextarea].                  *)

NoForms == <<>>

SubDoc ==
    [html |-> "<p>page</p>", text |-> "page", hrefs |-> <<>>,
     bodyEmails |-> <<>>, forms |-> NoForms]

\* homepages: no link at all; links in other letter case, with a trailing
\* slash, to another host, to an irrelevant path, to a fragment and with an
\* empty href; more relevant links than the crawl fetches
LinkedDoc ==
    [html |-> "<nav>...</nav>", text |-> "About Contact Press",
     hrefs |-> << "/About", "", "/contact/", "https://other.com/Press", "/pricing",
                  "mailto:hi@acme.com", "#top", "https://ACME.com/team?x=1" >>,
     bodyEmails |-> <<>>, forms |-> NoForms]

PlainHome ==
    [html |-> "<h1>home</h1>", text |-> "home", hrefs |-> <<>>,
     bodyEmails |-> <<>>, forms |-> NoForms]

HomeDocs ==
    { PlainHome,
      LinkedDoc,
      [html |-> "<footer>...</footer>", text |-> "sitemap",
       hrefs |-> << "/ABOUT", "/About-Us", "/Brand", "/Community/", "/Sustainability",
                    "/Partnerships", "/Partners", "/Sponsorship", "/SPONSORSHIPS",
                    "/Press", "/News", "/about" >>,
       bodyEmails |-> <<>>, forms |-> NoForms] }

\* the pages of a company site: signals of several categories, the same
\* category, address and agency on more than one page, addresses in a mailto
\* link and in the text, on placeholder and on real domains, forms with and
\* without a message field
SiteHome ==
    [html |-> "<main>home</main>",
     text |-> "Acme sponsors local teams. Write to Info@acme.com",
     hrefs |-> << "/about", "mailto:Info@Acme.com?subject=Hi", "/contact" >>,
     bodyEmails |-> << "Info@acme.com" >>,
     forms |-> << [action |-> "/subscribe", hasEmailField |-> TRUE, hasTextarea |-> FALSE] >>]

SiteAbout ==
    [html |-> "<main>about</main>",
     text |-> "Our team: Jane Doe, Head of Partnerships, jane.doe@acme.com",
     hrefs |-> << "/" >>,
     bodyEmails |-> << "jane.doe@acme.com" >>,
     forms |-> NoForms]

SiteContact ==
    [html |-> "<main>contact</main>",
     text |-> "Contact: Bright Star PR. Email partnerships@acme.com or info@example.com",
     hrefs |-> << "mailto:partnerships@acme.com", "mailto:doe@acme.com", "mailto:" >>,
     bodyEmails |-> << "partnerships@acme.com", "info@example.com" >>,
     forms |-> << [action |-> "", hasEmailField |-> FALSE, hasTextarea |-> TRUE],
                  [action |-> "javascript:send()", hasEmailField |-> TRUE, hasTextarea |-> TRUE],
                  [action |-> "/search", hasEmailField |-> FALSE, hasTextarea |-> FALSE] >>]

SitePress ==
    [html |-> "<main>press</main>",
     text |-> "Press agency: Bright Star PR. Official sponsor of the youth festival. press@acme.com media@contest.com",
     hrefs |-> <<>>,
     bodyEmails |-> << "press@acme.com", "media@contest.com" >>,
     forms |-> << [action |-> "/press-kit", hasEmailField |-> TRUE, hasTextarea |-> FALSE] >>]

SitePartners ==
    [html |-> "<main>partners</main>",
     text |-> "Marketing partner: Nova & Co. Proud partner of the league",
     hrefs |-> << "mailto:marketing@acme.com", "mailto:JANE.DOE@acme.com" >>,
     bodyEmails |-> <<>>,
     forms |-> << [action |-> "https://forms.io/acme", hasEmailField |-> TRUE, hasTextarea |-> TRUE] >>]

SiteLeadership ==
    [html |-> "<main>leadership</main>",
     text |-> "Our programme is led by Mark Lee. Jane Doe, Director of Marketing. Managed by Ann Ray and team",
     hrefs |-> <<>>,
     bodyEmails |-> <<>>,
     forms |-> NoForms]

Documents ==
    HomeDocs \cup {SubDoc, SiteHome, SiteAbout, SiteContact, SitePress, SitePartners,
                   SiteLeadership}

\* cheerio.load(html): the document of the markup
Load(html) == CHOOSE doc \in Documents : doc.html = html

-----------------------------------------------------------------------------
(* Fetcher: rateLimitedFetch and fetchPage (crawler.ts) *)

RATE_LIMIT_MS == 1000

\* delay of the abort timer of rateLimitedFetch
ABORT_TIMEOUT_MS == 10000

\* Date.now() when the process starts
StartTime == 5000

\* fetchPage calls of a standalone caller
MaxRequests == 3

\* response.ok
ResponseOk(status) == status >= 200 /\ status <= 299

\* fetchPage, lines 73-80: the result for a non-2xx response
HttpFailure(url, status) ==
    [url |-> url, html |-> "", text |-> "", links |-> <<>>, success |-> FALSE,
     error |-> "HTTP " \o ToString(status)]

\* fetchPage, lines 99-107: the result of the catch block; a thrown value is
\* [isError, message]
CatchFailure(url, thrown) ==
    [url |-> url, html |-> "", text |-> "", links |-> <<>>, success |-> FALSE,
     error |-> IF thrown.isError THEN thrown.message ELSE "Unknown error"]

\* fetchPage, lines 92-96: the hrefs of a[href], the empty ones dropped
ExtractLinks(hrefs) == SelectSeq(hrefs, LAMBDA h : h # "")

\* fetchPage, lines 83-98: a document is the body as cheerio reads it:
\* [html, text (of body, scripts removed, whitespace collapsed), hrefs]
PageSuccess(url, doc) ==
    [url |-> url, html |-> doc.html, text |-> doc.text,
     links |-> ExtractLinks(doc.hrefs), success |-> TRUE]

\* rateLimitedFetch, line 39
TimeSinceLastRequest(now) == now - lastRequestTime

\* rateLimitedFetch, line 41
MustWait(now) == TimeSinceLastRequest(now) < RATE_LIMIT_MS

\* mutant of RateLimitDelay: waits the elapsed time, not the remaining time
RateLimitDelay_Elapsed(now) == TimeSinceLastRequest(now)

\* rateLimitedFetch, line 43: the delay handed to setTimeout
RateLimitDelay(now) == RATE_LIMIT_MS - TimeSinceLastRequest(now)

\* rateLimitedFetch invocations that can be in flight at the same time
MaxCallers == 3
Callers == 1..MaxCallers

NotCalled == [pc |-> "idle", wakeAt |-> 0, startedAt |-> 0]

\* an invocation runs from line 38 to its first await: to the setTimeout of
\* line 42 when it must wait, else through line 47 into fetch()
EnterRateLimitedFetch(c, gap) ==
    /\ calls[c].pc = "idle"
    /\ clock' = clock + gap
    /\ IF MustWait(clock')
       THEN /\ calls' = [calls EXCEPT ![c] = [pc |-> "waiting",
                                              wakeAt |-> clock' + RateLimitDelay(clock'),
                                              startedAt |-> 0]]
            /\ UNCHANGED lastRequestTime
       ELSE /\ calls' = [calls EXCEPT ![c] = [pc |-> "started", wakeAt |-> 0,
                                              startedAt |-> clock']]
            /\ lastRequestTime' = clock'
    /\ UNCHANGED <<pc, wakeAt, fetchUrl, fetchRet, settled, requestCount>>

\* the timer of a waiting invocation fires, no earlier than due and after the
\* timers due before it; line 47 runs and fetch() starts
RateLimitTimerFires(c, late) ==
    /\ calls[c].pc = "waiting"
    /\ \A d \in Callers : calls[d].pc = "waiting" => calls[c].wakeAt <= calls[d].wakeAt
    /\ clock' = (IF calls[c].wakeAt > clock THEN calls[c].wakeAt ELSE clock) + late
    /\ lastRequestTime' = clock'
    /\ calls' = [calls EXCEPT ![c] = [pc |-> "started", wakeAt |-> 0, startedAt |-> clock']]
    /\ UNCHANGED <<pc, wakeAt, fetchUrl, fetchRet, settled, requestCount>>

NotSettled == [kind |-> "none"]

\* fetchPage(url) entered at time now, run to its first await:
\* rateLimitedFetch lines 38-47 and the start of fetch()
BeginFetch(url, now) ==
    /\ clock' = now
    /\ fetchUrl' = url
    /\ IF MustWait(now)
       THEN /\ pc' = "waiting"
            /\ wakeAt' = now + RateLimitDelay(now)
            /\ UNCHANGED <<lastRequestTime, requestCount>>
       ELSE /\ pc' = "fetching"
            /\ lastRequestTime' = now
            /\ requestCount' = requestCount + 1
            /\ UNCHANGED wakeAt
    /\ settled' = NotSettled
    /\ UNCHANGED fetchRet

\* the rate-limit timer fires, `late` ms after it was due (setTimeout never
\* fires early): line 47, then fetch() starts
TimerFires(late) ==
    /\ pc = "waiting"
    /\ clock' = (IF wakeAt > clock THEN wakeAt ELSE clock) + late
    /\ lastRequestTime' = clock'
    /\ requestCount' = requestCount + 1
    /\ pc' = "fetching"
    /\ UNCHANGED <<wakeAt, fetchUrl, fetchRet, settled>>

\* what `await fetch(...)` can do: throw (transport error), be aborted by the
\* timer, or resolve with a response
TransportError == [kind |-> "throw", thrown |-> [isError |-> TRUE, message |-> "fetch failed"]]
InvalidUrlError == [kind |-> "throw", thrown |-> [isError |-> TRUE, message |-> "Failed to parse URL"]]
AbortError == [kind |-> "throw", thrown |-> [isError |-> TRUE, message |-> "This operation was aborted"]]
Statuses == {200, 299, 300, 404}
FetchOutcomes == {TransportError, AbortError} \cup {[kind |-> "response", status |-> st] : st \in Statuses}

\* mutant of Catch: no catch block, the thrown value escapes fetchPage
Catch_Rethrow(url, thrown) == [escaped |-> thrown]

\* the try/catch of fetchPage (lines 69, 99-108): a value thrown inside the
\* try block becomes a failure result
Catch(url, thrown) == CatchFailure(url, thrown)

\* fetchPage after `await rateLimitedFetch(url)` settled with outcome o:
\* the value it returns now, or Pending when it goes on to read the body
Pending == [pending |-> TRUE]
AfterFetch(url, o) ==
    IF o.kind = "throw" THEN Catch(url, o.thrown)
    ELSE IF ~ResponseOk(o.status) THEN HttpFailure(url, o.status)
    ELSE Pending

\* fetchPage ends with value r: it returns r, or an exception escapes it
Finish(r) ==
    IF "escaped" \in DOMAIN r
    THEN pc' = "threw" /\ UNCHANGED fetchRet
    ELSE pc' = "returned" /\ fetchRet' = r

\* mutant of RequestUrlValid: fetch() sends a request whatever the URL is
RequestUrlValid_Always(url) == TRUE

\* fetch(url), line 53: the URL is parsed before anything is sent and the
\* promise rejects with a TypeError when it cannot be
RequestUrlValid(url) == ParseUrl(url).ok

\* `await fetch(...)` settles, after one of the latencies lats (lines 52-65,
\* 70-81).  fetch() rejects at once for a URL it cannot parse; the abort timer
\* fires at ABORT_TIMEOUT_MS and not before.
FetchSettles(lats) ==
    /\ pc = "fetching"
    /\ LET valid == RequestUrlValid(fetchUrl)
       IN \E lat \in lats, o \in FetchOutcomes \cup {InvalidUrlError} :
            /\ IF o = InvalidUrlError THEN ~valid /\ lat = 0
               ELSE valid /\ ((o = AbortError) <=> (lat = ABORT_TIMEOUT_MS))
            /\ clock' = clock + lat
            /\ settled' = IF o.kind = "response"
                          THEN [kind |-> "response", status |-> o.status, body |-> "unread"]
                          ELSE o
            /\ LET r == AfterFetch(fetchUrl, o)
               IN IF r = Pending
                  THEN pc' = "reading" /\ UNCHANGED fetchRet
                  ELSE Finish(r)
    /\ UNCHANGED <<lastRequestTime, wakeAt, fetchUrl, requestCount>>

BodyError == [kind |-> "throw", thrown |-> [isError |-> TRUE, message |-> "terminated"]]

\* fetchPage after `await response.text()` settled with outcome b
AfterBody(url, b) ==
    IF b.kind = "throw" THEN Catch(url, b.thrown)
    ELSE PageSuccess(url, b.doc)

\* `await response.text()` settles after lat ms (lines 83-98)
BodySettles(lat, b) ==
    /\ pc = "reading"
    /\ clock' = clock + lat
    /\ settled' = [settled EXCEPT !.body = IF b.kind = "throw" THEN "failed" ELSE "read"]
    /\ Finish(AfterBody(fetchUrl, b))
    /\ UNCHANGED <<lastRequestTime, wakeAt, fetchUrl, requestCount>>

-----------------------------------------------------------------------------
(* Crawler: crawlCompanyWebsite (crawler.ts) *)

RELEVANT_PATHS ==
    << "/", "/about", "/about-us", "/brand", "/community", "/sustainability",
       "/partnerships", "/partners", "/sponsorship", "/sponsorships", "/press",
       "/news", "/newsroom", "/media", "/contact", "/team", "/leadership",
       "/our-team", "/about/team" >>

\* the slice bound of line 183
MAX_PATHS == 10

\* crawls per process run
MaxCrawls == 1

\* lines 129-135
NormalizeBase(baseUrl) ==
    LET withScheme == IF StartsWith(baseUrl, "http") THEN baseUrl
                      ELSE "https://" \o baseUrl
    IN IF EndsWith(withScheme, "/")
       THEN SubSeq(withScheme, 1, Len(withScheme) - 1)
       ELSE withScheme

\* line 166
IsRelevantPath(path) ==
    \E i \in 1..Len(RELEVANT_PATHS) :
        path = RELEVANT_PATHS[i] \/ path = RELEVANT_PATHS[i] \o "/"

\* mutant of FoundPathOf: the hostname test of line 160 is missing
FoundPathOf_AnyHost(base, link) ==
    LET normalized == NormalizeUrl(base, link)
    IN IF normalized = "" THEN <<>>
       ELSE LET linkUrl == ParseUrl(normalized)
            IN IF ~linkUrl.ok THEN <<>>
               ELSE IF IsRelevantPath(ToLowerCase(linkUrl.pathname))
                    THEN <<linkUrl.pathname>>
                    ELSE <<>>

\* lines 152-172 for one link: the pathname added to foundPaths, if any
FoundPathOf(base, link) ==
    LET normalized == NormalizeUrl(base, link)
    IN IF normalized = "" THEN <<>>
       ELSE LET linkUrl == ParseUrl(normalized)
                baseUrl == ParseUrl(base)
            IN IF ~linkUrl.ok \/ ~baseUrl.ok THEN <<>>
               ELSE IF linkUrl.hostname # baseUrl.hostname THEN <<>>
               ELSE IF IsRelevantPath(ToLowerCase(linkUrl.pathname))
                    THEN <<linkUrl.pathname>>
                    ELSE <<>>

RECURSIVE FoundInLinks(_, _)
FoundInLinks(base, links) ==
    IF links = <<>> THEN <<>>
    ELSE FoundPathOf(base, Head(links)) \o FoundInLinks(base, Tail(links))

\* lines 149-180: foundPaths in insertion order
FoundPaths(base, links) ==
    Distinct(FoundInLinks(base, links) \o SelectSeq(RELEVANT_PATHS, LAMBDA p : p # "/"))

\* mutant of SliceLimit: the slice of line 183 is missing
SliceLimit_Unbounded(found) == found

\* line 183
SliceLimit(found) == SubSeq(found, 1, IF Len(found) < MAX_PATHS THEN Len(found) ELSE MAX_PATHS)

PathsToFetch(base, links) == SliceLimit(FoundPaths(base, links))

\* Map.prototype.set on the entries in insertion order
MapSet(entries, key, value) ==
    IF \E i \in 1..Len(entries) : entries[i].key = key
    THEN [i \in 1..Len(entries) |->
            IF entries[i].key = key THEN [key |-> key, value |-> value] ELSE entries[i]]
    ELSE Append(entries, [key |-> key, value |-> value])

MapHas(entries, key) == \E i \in 1..Len(entries) : entries[i].key = key

MapGet(entries, key) == entries[CHOOSE i \in 1..Len(entries) : entries[i].key = key].value

\* mutant of HomepageFailed: the early return of lines 143-146 is missing
HomepageFailed_Never(homepage) == FALSE

\* line 143
HomepageFailed(homepage) == ~homepage.success

\* lines 126-141: a crawl starts and calls fetchPage for the homepage
StartCrawl(baseUrl) ==
    /\ cpc \in {"idle", "done"}
    /\ pc \in {"idle", "returned"}
    /\ crawls < MaxCrawls
    /\ crawls' = crawls + 1
    /\ normalizedBase' = NormalizeBase(baseUrl)
    /\ results' = <<>>
    /\ pathsToFetch' = <<>>
    /\ idx' = 0
    /\ crawlRequests' = 1
    /\ attempted' = <<normalizedBase'>>
    /\ cpc' = "homepage"
    /\ BeginFetch(normalizedBase', clock)

\* lines 141-187: the homepage fetch returned
HomepageReturned ==
    /\ cpc = "homepage"
    /\ pc = "returned"
    /\ results' = MapSet(results, "/", fetchRet)
    /\ IF HomepageFailed(fetchRet)
       THEN /\ cpc' = "done"
            /\ UNCHANGED <<pathsToFetch, idx, crawlRequests, attempted, fetchVars>>
       ELSE /\ pathsToFetch' = PathsToFetch(normalizedBase, fetchRet.links)
            /\ IF pathsToFetch' = <<>>
               THEN /\ cpc' = "done"
                    /\ UNCHANGED <<idx, crawlRequests, attempted, fetchVars>>
               ELSE /\ cpc' = "subpaths"
                    /\ idx' = 1
                    /\ crawlRequests' = crawlRequests + 1
                    /\ attempted' = Append(attempted, normalizedBase \o pathsToFetch'[1])
                    /\ BeginFetch(normalizedBase \o pathsToFetch'[1], clock)
    /\ UNCHANGED <<normalizedBase, crawls>>

\* mutant of SubpathReturned: a failed sub-path fetch ends the loop
SubpathReturned_AbortOnFailure ==
    /\ cpc = "subpaths"
    /\ pc = "returned"
    /\ results' = IF fetchRet.success
                  THEN MapSet(results, pathsToFetch[idx], fetchRet)
                  ELSE results
    /\ IF fetchRet.success /\ idx < Len(pathsToFetch)
       THEN /\ idx' = idx + 1
            /\ crawlRequests' = crawlRequests + 1
            /\ attempted' = Append(attempted, normalizedBase \o pathsToFetch[idx + 1])
            /\ BeginFetch(normalizedBase \o pathsToFetch[idx + 1], clock)
            /\ UNCHANGED cpc
       ELSE /\ cpc' = "done"
            /\ UNCHANGED <<idx, crawlRequests, attempted, fetchVars>>
    /\ UNCHANGED <<normalizedBase, pathsToFetch, crawls>>

\* mutant of SubpathReturned: the result is stored whether it succeeded or not
SubpathReturned_StoreFailures ==
    /\ cpc = "subpaths"
    /\ pc = "returned"
    /\ results' = MapSet(results, pathsToFetch[idx], fetchRet)
    /\ IF idx < Len(pathsToFetch)
       THEN /\ idx' = idx + 1
            /\ crawlRequests' = crawlRequests + 1
            /\ attempted' = Append(attempted, normalizedBase \o pathsToFetch[idx + 1])
            /\ BeginFetch(normalizedBase \o pathsToFetch[idx + 1], clock)
            /\ UNCHANGED cpc
       ELSE /\ cpc' = "done"
            /\ UNCHANGED <<idx, crawlRequests, attempted, fetchVars>>
    /\ UNCHANGED <<normalizedBase, pathsToFetch, crawls>>

\* lines 185-195: the fetch of pathsToFetch[idx] returned
SubpathReturned ==
    /\ cpc = "subpaths"
    /\ pc = "returned"
    /\ results' = IF fetchRet.success
                  THEN MapSet(results, pathsToFetch[idx], fetchRet)
                  ELSE results
    /\ IF idx < Len(pathsToFetch)
       THEN /\ idx' = idx + 1
            /\ crawlRequests' = crawlRequests + 1
            /\ attempted' = Append(attempted, normalizedBase \o pathsToFetch[idx + 1])
            /\ BeginFetch(normalizedBase \o pathsToFetch[idx + 1], clock)
            /\ UNCHANGED cpc
       ELSE /\ cpc' = "done"
            /\ UNCHANGED <<idx, crawlRequests, attempted, fetchVars>>
    /\ UNCHANGED <<normalizedBase, pathsToFetch, crawls>>

-----------------------------------------------------------------------------
(* Signal analyzer: findSignals and analyzePageContent (analyzer.ts) *)

\* SIGNAL_PATTERNS in Object.entries order; each pattern is an alternation
\* of literals between two \b, flags gi.  "hip.?hop" is written out for the
\* separators of the model's texts.
SIGNAL_PATTERNS ==
    << [type |-> "sport", score |-> 15,
        words |-> << "football", "soccer", "athletics", "sport", "sports", "athlete",
                     "athletes", "team", "teams", "championship", "tournament" >>],
       [type |-> "youth", score |-> 20,
        words |-> << "youth", "young", "generation", "next gen", "nextgen", "teenager",
                     "teens", "kids", "children", "school", "education" >>],
       [type |-> "culture", score |-> 20,
        words |-> << "urban", "street", "culture", "cultural", "hip hop", "hip-hop",
                     "hiphop", "music", "art", "creative", "creativity", "lifestyle",
                     "fashion" >>],
       [type |-> "community", score |-> 15,
        words |-> << "community", "communities", "local", "grassroots", "neighborhood",
                     "social impact", "giving back", "initiative" >>],
       [type |-> "partnership", score |-> 25,
        words |-> << "partner", "partners", "partnership", "partnerships", "collaborate",
                     "collaboration", "sponsor", "sponsored", "sponsorship", "activate",
                     "activation" >>],
       [type |-> "previous_sponsorship", score |-> 30,
        words |-> << "official partner", "proud partner", "official sponsor",
                     "title sponsor", "presenting sponsor", "supported by",
                     "in partnership with" >>],
       [type |-> "events", score |-> 10,
        words |-> << "event", "events", "festival", "festivals", "tournament",
                     "championship", "competition", "experience", "experiential" >>] >>

\* \w
WordChars ==
    DOMAIN UpperToLower \cup {UpperToLower[c] : c \in DOMAIN UpperToLower}
      \cup {"0", "1", "2", "3", "4", "5", "6", "7", "8", "9", "_"}

\* \b between positions i-1 and i of s (1-based; i in 1..Len(s)+1)
WordBoundary(s, i) ==
    LET before == i > 1 /\ SubSeq(s, i - 1, i - 1) \in WordChars
        after  == i <= Len(s) /\ SubSeq(s, i, i) \in WordChars
    IN before # after

\* the alternation matches at position i of the lower-cased text: the first
\* alternative, in order, that fits between two word boundaries (0: none)
AlternativeAt(lower, i, words) ==
    LET fits == {k \in 1..Len(words) :
                    /\ i + Len(words[k]) - 1 <= Len(lower)
                    /\ SubSeq(lower, i, i + Len(words[k]) - 1) = words[k]
                    /\ WordBoundary(lower, i + Len(words[k]))}
    IN IF ~WordBoundary(lower, i) \/ fits = {} THEN 0 ELSE Min(fits)

\* text.match(pattern)[0]: the leftmost match, "" when there is none
FirstMatch(text, words) ==
    Bind(ToLowerCase(text), LAMBDA lower :
    Bind({i \in 1..Len(text) : AlternativeAt(lower, i, words) > 0}, LAMBDA at :
      IF at = {} THEN ""
      ELSE Bind(Min(at), LAMBDA i :
           Bind(AlternativeAt(lower, i, words), LAMBDA k :
             SubSeq(text, i, i + Len(words[k]) - 1)))))

\* s.replace(/\s+/g, ' ') on texts whose whitespace is the space
RECURSIVE CollapseSpaces(_)
CollapseSpaces(s) ==
    IF Len(s) < 2 THEN s
    ELSE LET l == CollapseSpaces(SubSeq(s, 1, Len(s) \div 2))
             r == CollapseSpaces(SubSeq(s, Len(s) \div 2 + 1, Len(s)))
         IN IF EndsWith(l, " ") /\ StartsWith(r, " ")
            THEN l \o SubSeq(r, 2, Len(r))
            ELSE l \o r

\* s.trim()
RECURSIVE Trim(_)
Trim(s) ==
    IF StartsWith(s, " ") THEN Trim(SubSeq(s, 2, Len(s)))
    ELSE IF EndsWith(s, " ") THEN Trim(SubSeq(s, 1, Len(s) - 1))
    ELSE s

\* the width of the context kept on each side of a match (lines 66-67)
CONTEXT_CHARS == 50

\* lines 64-68: the context around the first occurrence of the match
SnippetOf(text, firstMatch) ==
    Bind(IndexOf(ToLowerCase(text), ToLowerCase(firstMatch)), LAMBDA index :
      LET start == IF index - CONTEXT_CHARS > 0 THEN index - CONTEXT_CHARS ELSE 0
          stop  == IF index + Len(firstMatch) + CONTEXT_CHARS < Len(text)
                   THEN index + Len(firstMatch) + CONTEXT_CHARS ELSE Len(text)
      IN Trim(CollapseSpaces(SubSeq(text, start + 1, stop))))

\* findSignals, lines 59-78, for the categories k..7
RECURSIVE FindSignalsFrom(_, _)
FindSignalsFrom(text, k) ==
    IF k > Len(SIGNAL_PATTERNS) THEN <<>>
    ELSE Bind(SIGNAL_PATTERNS[k], LAMBDA config :
         Bind(FirstMatch(text, config.words), LAMBDA firstMatch :
           (IF firstMatch = "" THEN <<>>
            ELSE << [type |-> config.type,
                     text |-> "..." \o SnippetOf(text, firstMatch) \o "...",
                     score |-> config.score] >>)
           \o FindSignalsFrom(text, k + 1)))

\* findSignals
FindSignals(text) == FindSignalsFrom(text, 1)

\* mutant of IsNewType: every signal of every page is taken
IsNewType_Always(allSignals, signal) == TRUE

\* analyzePageContent, line 96: a signal is taken when its type is new
IsNewType(allSignals, signal) ==
    \A i \in 1..Len(allSignals) : allSignals[i].type # signal.type

\* analyzePageContent, lines 94-103, for the signals of one page
RECURSIVE AddSignals(_, _, _)
AddSignals(allSignals, path, signals) ==
    IF signals = <<>> THEN allSignals
    ELSE Bind(Head(signals), LAMBDA signal :
         Bind(IF IsNewType(allSignals, signal)
              THEN Append(allSignals,
                          [signal EXCEPT !.text = "[" \o path \o "] " \o signal.text])
              ELSE allSignals,
              LAMBDA taken :
         Bind(Tail(signals), LAMBDA others : AddSignals(taken, path, others))))

\* analyzePageContent, lines 89-104, for the entries i.. of the Map
RECURSIVE AnalyzeFrom(_, _, _)
AnalyzeFrom(crawlResults, i, allSignals) ==
    IF i > Len(crawlResults) THEN allSignals
    ELSE Bind(crawlResults[i].key, LAMBDA path :
         Bind(crawlResults[i].value, LAMBDA result :
         Bind(IF ~result.success THEN allSignals
              ELSE Bind(FindSignals(result.text), LAMBDA signals :
                     AddSignals(allSignals, path, signals)),
              LAMBDA taken : AnalyzeFrom(crawlResults, i + 1, taken))))

\* analyzePageContent
AnalyzePageContent(crawlResults) == AnalyzeFrom(crawlResults, 1, <<>>)

-----------------------------------------------------------------------------
(* Contact extractor (contacts/extractor.ts) *)

\* EMAIL_PRIORITY in Object.entries order
EMAIL_PRIORITY ==
    << [type |-> "partnerships", score |-> 100], [type |-> "partner", score |-> 95],
       [type |-> "sponsorship", score |-> 95],   [type |-> "sponsor", score |-> 90],
       [type |-> "marketing", score |-> 80],     [type |-> "brand", score |-> 75],
       [type |-> "press", score |-> 60],         [type |-> "media", score |-> 60],
       [type |-> "pr", score |-> 55],            [type |-> "info", score |-> 40],
       [type |-> "contact", score |-> 35],       [type |-> "hello", score |-> 30] >>

\* confidence of an email no keyword classifies (line 78)
DEFAULT_EMAIL_SCORE == 20

\* confidence of a contact form (line 129) and of an agency mention (line 157)
FORM_SCORE == 40
AGENCY_SCORE == 50

\* the length above which isValidEmail rejects (line 68)
MAX_EMAIL_LENGTH == 100

\* isValidEmail, line 63
EMAIL_BLACKLIST == <<"example.com", "email.com", "domain.com", "test.com">>

\* isValidEmail, line 67
DomainBlacklisted(domain) ==
    \E i \in 1..Len(EMAIL_BLACKLIST) : Includes(domain, EMAIL_BLACKLIST[i])

\* isValidEmail: email.split('@')[1] is undefined without an '@'
IsValidEmail(email) ==
    LET parts == Split(email, "@")
    IN /\ Len(parts) >= 2
       /\ parts[2] # ""
       /\ ~DomainBlacklisted(parts[2])
       /\ ~(Len(email) > MAX_EMAIL_LENGTH)

\* mutant of FirstKeyword: the last keyword the prefix contains
FirstKeyword_Last(prefix) ==
    LET hits == {k \in 1..Len(EMAIL_PRIORITY) : Includes(prefix, EMAIL_PRIORITY[k].type)}
    IN IF hits = {} THEN 0 ELSE CHOOSE k \in hits : \A j \in hits : j <= k

\* createEmailContact, lines 80-86: the first keyword the prefix contains
\* (0: none)
FirstKeyword(prefix) ==
    LET hits == {k \in 1..Len(EMAIL_PRIORITY) : Includes(prefix, EMAIL_PRIORITY[k].type)}
    IN IF hits = {} THEN 0 ELSE Min(hits)

\* createEmailContact
CreateEmailContact(email, sourceUrl) ==
    LET prefix == ToLowerCase(Split(email, "@")[1])
        k      == FirstKeyword(prefix)
    IN [pathType |-> "email", value |-> email,
        emailType |-> IF k = 0 THEN "general" ELSE EMAIL_PRIORITY[k].type,
        confidenceScore |-> IF k = 0 THEN DEFAULT_EMAIL_SCORE ELSE EMAIL_PRIORITY[k].score,
        sourceUrl |-> sourceUrl]

\* s.replace(t, '') for a string t: the first occurrence goes
RemoveFirst(s, t) ==
    LET i == IndexOf(s, t)
    IN IF i < 0 THEN s ELSE SubSeq(s, 1, i) \o SubSeq(s, i + Len(t) + 1, Len(s))

\* extractEmails, line 36
MailtoEmail(href) == ToLowerCase(Split(RemoveFirst(href, "mailto:"), "?")[1])

\* extractEmails, lines 33-41: the mailto links of the markup, in order
RECURSIVE MailtoContacts(_, _)
MailtoContacts(hrefs, sourceUrl) ==
    IF hrefs = <<>> THEN <<>>
    ELSE Bind(MailtoEmail(Head(hrefs)), LAMBDA email :
         Bind(Tail(hrefs), LAMBDA others :
           (IF Head(hrefs) # "" /\ IsValidEmail(email)
            THEN <<CreateEmailContact(email, sourceUrl)>> ELSE <<>>)
           \o MailtoContacts(others, sourceUrl)))

\* extractEmails, lines 48-56: the matches of emailRegex in the body text
RECURSIVE AddTextEmails(_, _, _)
AddTextEmails(contacts, matches, sourceUrl) ==
    IF matches = <<>> THEN contacts
    ELSE Bind(ToLowerCase(Head(matches)), LAMBDA lowerEmail :
         Bind(IF IsValidEmail(lowerEmail)
                   /\ ~\E i \in 1..Len(contacts) : contacts[i].value = lowerEmail
              THEN Append(contacts, CreateEmailContact(lowerEmail, sourceUrl))
              ELSE contacts,
              LAMBDA pushed :
         Bind(Tail(matches), LAMBDA others : AddTextEmails(pushed, others, sourceUrl))))

\* extractEmails, line 33: the href of a[href^="mailto:"]
MailtoLinks(doc) == SelectSeq(doc.hrefs, LAMBDA h : StartsWith(h, "mailto:"))

\* extractEmails
ExtractEmails(html, sourceUrl) ==
    Bind(Load(html), LAMBDA doc :
    Bind(MailtoContacts(MailtoLinks(doc), sourceUrl), LAMBDA contacts :
      AddTextEmails(contacts, doc.bodyEmails, sourceUrl)))

\* extractContactForms, lines 116-124
FormUrl(action, baseUrl, sourceUrl) ==
    IF action = "" \/ StartsWith(action, "javascript:") THEN sourceUrl
    ELSE Bind(ParseUrl(baseUrl), LAMBDA base :
         Bind(IF SchemeOf(action) # "" THEN ParseUrl(action)
              ELSE IF base.ok THEN ResolveUrl(action, base)
              ELSE InvalidUrl,
              LAMBDA u : IF u.ok THEN SerializeUrl(u) ELSE sourceUrl))

\* extractContactForms, lines 106-133, for the form elements forms
RECURSIVE FormContacts(_, _, _)
FormContacts(forms, baseUrl, sourceUrl) ==
    IF forms = <<>> THEN <<>>
    ELSE Bind(Head(forms), LAMBDA form :
         Bind(Tail(forms), LAMBDA others :
           (IF form.hasEmailField \/ form.hasTextarea
            THEN << [pathType |-> "form",
                     value |-> FormUrl(form.action, baseUrl, sourceUrl),
                     emailType |-> "",
                     confidenceScore |-> FORM_SCORE, sourceUrl |-> sourceUrl] >>
            ELSE <<>>)
           \o FormContacts(others, baseUrl, sourceUrl)))

\* extractContactForms
ExtractContactForms(html, baseUrl, sourceUrl) ==
    Bind(Load(html).forms, LAMBDA forms : FormContacts(forms, baseUrl, sourceUrl))

Letters == {UpperToLower[c] : c \in DOMAIN UpperToLower}

\* the last position of the run of characters of chars that starts at i
\* (i - 1 when the run is empty)
RunEnd(lower, i, chars) ==
    Min({j \in i..(Len(lower) + 1) :
            j = Len(lower) + 1 \/ SubSeq(lower, j, j) \notin chars}) - 1

\* the literals of words, in order, that lower holds at position i
LiteralsAt(lower, i, words) ==
    {k \in 1..Len(words) : /\ i + Len(words[k]) - 1 <= Len(lower)
                            /\ SubSeq(lower, i, i + Len(words[k]) - 1) = words[k]}

\* after an introduction that ends before position j: [:\s]+ and then the
\* run ([A-Z][a-zA-Z\s&]+) under flag i; the capture as <<first, last>>, or
\* <<0, 0>>
CaptureAfter(lower, j) ==
    Bind(RunEnd(lower, j, {":", " "}) + 1, LAMBDA first :
    Bind(RunEnd(lower, first + 1, Letters \cup {" ", "&"}), LAMBDA last :
      IF first > j /\ first <= Len(lower) /\ SubSeq(lower, first, first) \in Letters
           /\ last > first
      THEN <<first, last>> ELSE <<0, 0>>))

AGENCY_INTROS == <<"pr", "press", "media", "marketing">>
AGENCY_NOUNS == <<"agency", "firm", "partner">>
AGENCY_REFERRALS == <<"represented by", "handled by", "contact">>
AGENCY_SUFFIXES == <<"pr", "communications", "agency">>

\* agencyPatterns[0] at position i: the captures its alternatives allow; the
\* regex takes the one of the first alternative that matches
FirstPatternAt(lower, i) ==
    Bind(UNION { Bind(RunEnd(lower, i + Len(AGENCY_INTROS[k]), {" "}) + 1,
                      LAMBDA nounStart :
                        IF nounStart > i + Len(AGENCY_INTROS[k])
                        THEN { <<k, CaptureAfter(lower, nounStart + Len(AGENCY_NOUNS[m]))>> :
                                 m \in LiteralsAt(lower, nounStart, AGENCY_NOUNS) }
                        ELSE {}) :
                 k \in LiteralsAt(lower, i, AGENCY_INTROS) },
         LAMBDA caps :
    Bind({c \in caps : c[2] # <<0, 0>>}, LAMBDA good :
      IF good = {} THEN <<0, 0>>
      ELSE (CHOOSE c \in good : \A d \in good : c[1] <= d[1])[2]))

\* agencyPatterns[1] at position i: the capture must end with a suffix; the
\* greedy run gives the longest one
SecondPatternAt(lower, i) ==
    Bind(LiteralsAt(lower, i, AGENCY_REFERRALS), LAMBDA ks :
      IF ks = {} THEN <<0, 0>>
      ELSE Bind(CaptureAfter(lower, i + Len(AGENCY_REFERRALS[Min(ks)])), LAMBDA run :
           Bind({e \in (run[1] + 1)..run[2] :
                   \E x \in 1..Len(AGENCY_SUFFIXES) :
                      /\ e - Len(AGENCY_SUFFIXES[x]) > run[1]
                      /\ SubSeq(lower, e - Len(AGENCY_SUFFIXES[x]) + 1, e)
                           = AGENCY_SUFFIXES[x]},
                LAMBDA ends :
             IF run = <<0, 0>> \/ ends = {} THEN <<0, 0>>
             ELSE <<run[1], CHOOSE e \in ends : \A f \in ends : f <= e>>)))

\* text.matchAll(pattern): match[1] of the matches from position from on
RECURSIVE MatchAllFrom(_, _, _, _)
MatchAllFrom(text, lower, first, from) ==
    Bind([i \in from..Len(lower) |->
            IF first THEN FirstPatternAt(lower, i) ELSE SecondPatternAt(lower, i)],
         LAMBDA at :
    Bind({i \in DOMAIN at : at[i] # <<0, 0>>}, LAMBDA hits :
      IF hits = {} THEN <<>>
      ELSE Bind(at[Min(hits)], LAMBDA cap :
           Bind(cap[2] + 1, LAMBDA next :
             <<SubSeq(text, cap[1], cap[2])>>
               \o MatchAllFrom(text, lower, first, next)))))

\* extractAgencyMentions, lines 150-162
ExtractAgencyMentions(text, sourceUrl) ==
    Bind(ToLowerCase(text), LAMBDA lower :
    Bind(MatchAllFrom(text, lower, TRUE, 1) \o MatchAllFrom(text, lower, FALSE, 1),
         LAMBDA captures :
    Bind(SelectSeq(captures, LAMBDA c : Len(c) > 3 /\ Len(c) < 50), LAMBDA kept :
      [i \in 1..Len(kept) |->
         [pathType |-> "agency", value |-> Trim(kept[i]), emailType |-> "",
          confidenceScore |-> AGENCY_SCORE, sourceUrl |-> sourceUrl]])))

\* mutant of AddUnseen: no seenValues check
AddUnseen_All(allContacts, found) == allContacts \o found

\* extractContacts, lines 180-183 (and 194-197, 204-207): a contact is kept
\* when its value was not seen
RECURSIVE AddUnseen(_, _)
AddUnseen(allContacts, found) ==
    IF found = <<>> THEN allContacts
    ELSE Bind(IF \E i \in 1..Len(allContacts) : allContacts[i].value = Head(found).value
              THEN allContacts
              ELSE Append(allContacts, Head(found)),
              LAMBDA pushed :
         Bind(Tail(found), LAMBDA others : AddUnseen(pushed, others)))

\* lines 187-191
IsFormPage(path) == Includes(path, "contact") \/ Includes(path, "partner") \/ path = "/"

\* Array.prototype.sort((a, b) => b.confidenceScore - a.confidenceScore):
\* stable, the higher score first
RECURSIVE SortByConfidence(_)
SortByConfidence(seq) ==
    IF seq = <<>> THEN <<>>
    ELSE Bind(SubSeq(seq, 1, Len(seq) - 1), LAMBDA front :
         Bind(SortByConfidence(front), LAMBDA rest :
         Bind(seq[Len(seq)], LAMBDA x :
         Bind({i \in 1..Len(rest) : rest[i].confidenceScore >= x.confidenceScore},
              LAMBDA keep :
         Bind(IF keep = {} THEN 0 ELSE CHOOSE i \in keep : \A j \in keep : j <= i,
              LAMBDA n :
           SubSeq(rest, 1, n) \o <<x>> \o SubSeq(rest, n + 1, Len(rest)))))))

\* extractContacts, lines 174-209, for the entries i.. of the Map
RECURSIVE CollectContacts(_, _, _, _)
CollectContacts(crawlResults, baseUrl, i, allContacts) ==
    IF i > Len(crawlResults) THEN allContacts
    ELSE Bind(crawlResults[i].key, LAMBDA path :
         Bind(crawlResults[i].value, LAMBDA result :
         Bind(IF ~result.success THEN allContacts
              ELSE Bind(ExtractEmails(result.html, result.url), LAMBDA emails :
                   Bind(AddUnseen(allContacts, emails), LAMBDA withEmails :
                   Bind(IF IsFormPage(path)
                        THEN Bind(ExtractContactForms(result.html, baseUrl, result.url),
                                  LAMBDA forms : AddUnseen(withEmails, forms))
                        ELSE withEmails,
                        LAMBDA withForms :
                   Bind(ExtractAgencyMentions(result.text, result.url), LAMBDA agencies :
                     AddUnseen(withForms, agencies))))),
              LAMBDA collected :
           CollectContacts(crawlResults, baseUrl, i + 1, collected))))

\* extractContacts
ExtractContacts(crawlResults, baseUrl) ==
    Bind(CollectContacts(crawlResults, baseUrl, 1, <<>>), LAMBDA allContacts :
      SortByConfidence(allContacts))

-----------------------------------------------------------------------------
(* Contact-path selector (ranking/pathSelector.ts, contacts/linkedin.ts) *)

\* application/x-www-form-urlencoded serialisation (URLSearchParams) of the
\* characters of the model's company names and titles
FormEncodeChar(c) ==
    CASE c = " " -> "+"
      [] c = "&" -> "%26"
      [] c = "'" -> "%27"
      [] c = "," -> "%2C"
      [] OTHER -> c

RECURSIVE FormEncode(_)
FormEncode(s) ==
    IF Len(s) = 0 THEN ""
    ELSE IF Len(s) = 1 THEN FormEncodeChar(s)
    ELSE FormEncode(SubSeq(s, 1, Len(s) \div 2))
           \o FormEncode(SubSeq(s, Len(s) \div 2 + 1, Len(s)))

\* REGIONS; an unknown region has no filter
RegionFilter(region) ==
    LET r == ToLowerCase(region)
    IN CASE r = "denmark" -> "Denmark"
         [] r = "nordic" -> "Denmark OR Sweden OR Norway OR Finland"
         [] r = "europe" -> "Europe"
         [] OTHER -> ""

\* generateLinkedInSearchUrl; "" stands for an absent title or region
GenerateLinkedInSearchUrl(companyName, title, region) ==
    LET keywords == IF title # "" THEN title \o " " \o companyName ELSE companyName
        geo      == IF region # "" THEN RegionFilter(region) ELSE ""
    IN "https://www.linkedin.com/search/results/people/?keywords=" \o FormEncode(keywords)
         \o "&origin=GLOBAL_SEARCH_HEADER"
         \o (IF geo # "" THEN "&geoUrn=" \o FormEncode(geo) ELSE "")

\* rank scores of selectBestPaths (lines 51, 74, 81, 93, 103, 115, 130, 145)
NAMED_EMAIL_SCORE == 100
PARTNERSHIP_INBOX_SCORE == 75
MARKETING_INBOX_SCORE == 70
AGENCY_PATH_SCORE == 50
PRESS_PATH_SCORE == 45
FORM_PATH_SCORE == 40
GENERIC_INBOX_SCORE == 30
LINKEDIN_SCORE == 25

\* a SelectedPath; "" stands for an absent optional field
SelectedPath(type, value, score, sourceUrl) ==
    [type |-> type, value |-> value, personName |-> "", personTitle |-> "",
     score |-> score, sourceUrl |-> sourceUrl]

\* lines 35-42: the callback of contacts.find
MightBelongTo(c, person) ==
    /\ c.pathType = "email"
    /\ LET emailPrefix == ToLowerCase(Split(c.value, "@")[1])
           nameParts   == Split(ToLowerCase(person.name), " ")
       IN \E k \in 1..Len(nameParts) :
             Includes(emailPrefix, nameParts[k]) \/ Includes(nameParts[k], emailPrefix)

\* mutant of PersonalEmail: the last contact that might belong to the person
PersonalEmail_Last(contacts, person) ==
    LET hits == {i \in 1..Len(contacts) : MightBelongTo(contacts[i], person)}
    IN IF hits = {} THEN 0 ELSE CHOOSE i \in hits : \A j \in hits : j <= i

\* line 34: contacts.find, as the index of the contact found (0: undefined)
PersonalEmail(contacts, person) ==
    LET hits == {i \in 1..Len(contacts) : MightBelongTo(contacts[i], person)}
    IN IF hits = {} THEN 0 ELSE Min(hits)

\* lines 32-55
RECURSIVE NamedEmailPaths(_, _)
NamedEmailPaths(contacts, people) ==
    IF people = <<>> THEN <<>>
    ELSE Bind(Head(people), LAMBDA person :
         Bind(PersonalEmail(contacts, person), LAMBDA found :
         Bind(Tail(people), LAMBDA others :
           (IF found = 0 THEN <<>>
            ELSE << [type |-> "named_email", value |-> contacts[found].value,
                     personName |-> person.name, personTitle |-> person.jobTitle,
                     score |-> NAMED_EMAIL_SCORE,
                     sourceUrl |-> contacts[found].sourceUrl] >>)
           \o NamedEmailPaths(contacts, others))))

IsPartnershipEmail(contact) ==
    contact.emailType \in {"partnerships", "partner", "sponsorship", "sponsor"}

IsMarketingEmail(contact) == contact.emailType \in {"marketing", "brand"}

\* lines 58-85
RECURSIVE InboxPaths(_)
InboxPaths(contacts) ==
    IF contacts = <<>> THEN <<>>
    ELSE LET contact == Head(contacts)
         IN (IF contact.pathType # "email" THEN <<>>
             ELSE IF IsPartnershipEmail(contact)
             THEN <<SelectedPath("inbox", contact.value, PARTNERSHIP_INBOX_SCORE, contact.sourceUrl)>>
             ELSE IF IsMarketingEmail(contact)
             THEN <<SelectedPath("inbox", contact.value, MARKETING_INBOX_SCORE, contact.sourceUrl)>>
             ELSE <<>>)
            \o InboxPaths(Tail(contacts))

\* lines 88-107
RECURSIVE AgencyPaths(_)
AgencyPaths(contacts) ==
    IF contacts = <<>> THEN <<>>
    ELSE LET contact == Head(contacts)
         IN (IF contact.pathType = "agency"
             THEN <<SelectedPath("agency", contact.value, AGENCY_PATH_SCORE, contact.sourceUrl)>>
             ELSE IF contact.pathType = "email" /\ contact.emailType \in {"press", "media"}
             THEN <<SelectedPath("agency", contact.value, PRESS_PATH_SCORE, contact.sourceUrl)>>
             ELSE <<>>)
            \o AgencyPaths(Tail(contacts))

\* lines 110-119
RECURSIVE FormPaths(_)
FormPaths(contacts) ==
    IF contacts = <<>> THEN <<>>
    ELSE LET contact == Head(contacts)
         IN (IF contact.pathType = "form"
             THEN <<SelectedPath("form", contact.value, FORM_PATH_SCORE, contact.sourceUrl)>>
             ELSE <<>>)
            \o FormPaths(Tail(contacts))

\* mutant of AddGenericEmails: the loop of lines 122-134 is missing
AddGenericEmails_None(rankedPaths, contacts) == rankedPaths

\* lines 122-134: the emails no path carries yet
RECURSIVE AddGenericEmails(_, _)
AddGenericEmails(rankedPaths, contacts) ==
    IF contacts = <<>> THEN rankedPaths
    ELSE Bind(Head(contacts), LAMBDA contact :
         Bind(IF contact.pathType = "email"
                   /\ ~\E i \in 1..Len(rankedPaths) : rankedPaths[i].value = contact.value
              THEN Append(rankedPaths,
                          SelectedPath("inbox", contact.value, GENERIC_INBOX_SCORE,
                                       contact.sourceUrl))
              ELSE rankedPaths,
              LAMBDA pushed :
         Bind(Tail(contacts), LAMBDA others : AddGenericEmails(pushed, others))))

\* lines 137-146
LinkedInPath(companyName, region) ==
    SelectedPath("linkedin",
                 GenerateLinkedInSearchUrl(companyName, "Brand Partnerships", region),
                 LINKEDIN_SCORE, "")

\* mutant of SortByScore: rankedPaths is left in the order of the pushes
SortByScore_Unsorted(seq) == seq

\* rankedPaths.sort((a, b) => b.score - a.score): stable
RECURSIVE SortByScore(_)
SortByScore(seq) ==
    IF seq = <<>> THEN <<>>
    ELSE Bind(SubSeq(seq, 1, Len(seq) - 1), LAMBDA front :
         Bind(SortByScore(front), LAMBDA rest :
         Bind(seq[Len(seq)], LAMBDA x :
         Bind({i \in 1..Len(rest) : rest[i].score >= x.score}, LAMBDA keep :
         Bind(IF keep = {} THEN 0 ELSE CHOOSE i \in keep : \A j \in keep : j <= i,
              LAMBDA n :
           SubSeq(rest, 1, n) \o <<x>> \o SubSeq(rest, n + 1, Len(rest)))))))

\* mutant of RankedPaths: the LinkedIn fallback is not appended
RankedPaths_NoFallback(contacts, people, companyName, region) ==
    Bind(NamedEmailPaths(contacts, people) \o InboxPaths(contacts)
           \o AgencyPaths(contacts) \o FormPaths(contacts),
         LAMBDA typed :
    Bind(AddGenericEmails(typed, contacts), LAMBDA rankedPaths :
      SortByScore(rankedPaths)))

\* selectBestPaths, lines 29-149: rankedPaths after the sort
RankedPaths(contacts, people, companyName, region) ==
    Bind(NamedEmailPaths(contacts, people) \o InboxPaths(contacts)
           \o AgencyPaths(contacts) \o FormPaths(contacts),
         LAMBDA typed :
    Bind(Append(AddGenericEmails(typed, contacts), LinkedInPath(companyName, region)),
         LAMBDA rankedPaths :
      SortByScore(rankedPaths)))

LINKEDIN_TITLES ==
    <<"Brand Partnerships", "Sports Marketing", "Sponsorship Manager", "Marketing Director">>

NoPath == [type |-> "none"]
NoSelection == [selected |-> FALSE]

\* selectBestPaths, lines 151-167, for the contacts and people it read;
\* NoSelection is null, NoPath a null backup
SelectBestPaths(contacts, people, companyName, region) ==
    Bind(RankedPaths(contacts, people, companyName, region), LAMBDA rankedPaths :
      IF Len(rankedPaths) = 0 THEN NoSelection
      ELSE [selected |-> TRUE,
            primary |-> rankedPaths[1],
            backup |-> IF Len(rankedPaths) > 1 THEN rankedPaths[2] ELSE NoPath,
            linkedinUrls |->
              [t \in 1..Len(LINKEDIN_TITLES) |->
                 [title |-> LINKEDIN_TITLES[t],
                  url |-> GenerateLinkedInSearchUrl(companyName, LINKEDIN_TITLES[t], region)]]])

-----------------------------------------------------------------------------
(* The qualify command (index.ts, lines 411-509), for one company *)

\* mutant of CalculateQualificationScore: the number of signals
CalculateQualificationScore_Count(sigs) == Len(sigs)

\* calculateQualificationScore
RECURSIVE CalculateQualificationScore(_)
CalculateQualificationScore(sigs) ==
    IF sigs = <<>> THEN 0 ELSE Head(sigs).score + CalculateQualificationScore(Tail(sigs))

\* updateCompanyQualification: the default threshold
QUALIFICATION_THRESHOLD == 50

\* mutant of UpdateCompanyQualification: only the score is written
UpdateCompanyQualification_KeepStatus(row, score) == [row EXCEPT !.score = score]

\* updateCompanyQualification
UpdateCompanyQualification(row, score) ==
    [row EXCEPT !.score = score,
                !.status = IF score >= QUALIFICATION_THRESHOLD THEN "qualified"
                           ELSE "unqualified"]

\* saveContacts: the rows after the DELETE and the INSERTs
SaveContacts(found) ==
    [i \in 1..Len(found) |->
       [pathType |-> found[i].pathType, value |-> found[i].value,
        emailType |-> found[i].emailType, confidenceScore |-> found[i].confidenceScore,
        sourceUrl |-> found[i].sourceUrl, isPrimary |-> i = 1]]

\* getCompanyContacts: the rows ORDER BY confidence_score DESC; SQL leaves the
\* order of rows of equal score open
RECURSIVE ReadOrders(_, _)
ReadOrders(rows, left) ==
    IF left = {} THEN {<<>>}
    ELSE LET top == {i \in left :
                       \A j \in left : rows[i].confidenceScore >= rows[j].confidenceScore}
         IN UNION { { << [pathType |-> rows[i].pathType, value |-> rows[i].value,
                          emailType |-> rows[i].emailType,
                          confidenceScore |-> rows[i].confidenceScore,
                          sourceUrl |-> rows[i].sourceUrl] >> \o t :
                        t \in ReadOrders(rows, left \ {i}) } : i \in top }

GetCompanyContacts(rows) == ReadOrders(rows, DOMAIN rows)

\* mutant of SavePathSelection: the UPDATE that resets is_primary is missing
SavePathSelection_NoReset(rows, sel) ==
    [i \in 1..Len(rows) |->
       [rows[i] EXCEPT !.isPrimary = @ \/ (sel.primary.type # "linkedin"
                                             /\ rows[i].value = sel.primary.value)]]

\* savePathSelection
SavePathSelection(rows, sel) ==
    [i \in 1..Len(rows) |->
       [rows[i] EXCEPT !.isPrimary = sel.primary.type # "linkedin"
                                        /\ rows[i].value = sel.primary.value]]

\* Step 2 (lines 429-446): analyzePageContent, saveSignals,
\* updateCompanyQualification
AnalyzeStep ==
    /\ qpc = "crawled"
    /\ dbSignals' = AnalyzePageContent(qCrawlResults)
    /\ company' = UpdateCompanyQualification(company, CalculateQualificationScore(dbSignals'))
    /\ qpc' = "analyzed"
    /\ UNCHANGED <<qCrawlResults, qContacts, contactPaths, dbPeople, readContacts,
                   qRankedPaths, selection>>

\* Step 3 (lines 449-451): extractContacts, saveContacts
ContactsStep ==
    /\ qpc = "analyzed"
    /\ qContacts' = ExtractContacts(qCrawlResults, company.websiteUrl)
    /\ contactPaths' = SaveContacts(qContacts')
    /\ qpc' = "extracted"
    /\ UNCHANGED <<company, qCrawlResults, dbSignals, dbPeople, readContacts, qRankedPaths,
                   selection>>

\* Step 4 (lines 466-478): the people extractPeople and Wikipedia gave are
\* saved
PeopleStep(found) ==
    /\ qpc = "extracted"
    /\ dbPeople' = found
    /\ qpc' = "people"
    /\ UNCHANGED <<company, qCrawlResults, dbSignals, qContacts, contactPaths, readContacts,
                   qRankedPaths, selection>>

\* Step 5 (lines 493-501): selectBestPaths, savePathSelection
SelectStep ==
    /\ qpc = "people"
    /\ \E read \in GetCompanyContacts(contactPaths) :
          /\ readContacts' = read
          /\ qRankedPaths' = RankedPaths(read, dbPeople, company.name, "")
          /\ selection' = SelectBestPaths(read, dbPeople, company.name, "")
          /\ contactPaths' = IF selection'.selected
                             THEN SavePathSelection(contactPaths, selection')
                             ELSE contactPaths
    /\ qpc' = "selected"
    /\ UNCHANGED <<company, qCrawlResults, dbSignals, qContacts, dbPeople>>

\* extractEmails, lines 50-56, for one match of emailRegex
Rejected == [rejected |-> TRUE]
NoContact == [rejected |-> FALSE]

ExtractOneEmail ==
    /\ address # ""
    /\ emailContact = NoContact
    /\ emailContact' = IF IsValidEmail(ToLowerCase(address))
                       THEN CreateEmailContact(ToLowerCase(address), "https://acme.com")
                       ELSE Rejected
    /\ UNCHANGED address

-----------------------------------------------------------------------------
(* People extractor (people/extractor.ts) *)

\* RELEVANT_DEPARTMENTS in Object.entries order
RELEVANT_DEPARTMENTS ==
    << [dept |-> "brand", keywords |-> <<"brand", "branding">>],
       [dept |-> "partnerships",
        keywords |-> <<"partnership", "partner", "sponsorship", "sponsor">>],
       [dept |-> "marketing", keywords |-> <<"marketing", "market", "growth">>],
       [dept |-> "sports", keywords |-> <<"sport", "sports", "athletic">>],
       [dept |-> "csr",
        keywords |-> <<"csr", "sustainability", "social responsibility", "impact">>],
       [dept |-> "community", keywords |-> <<"community", "communities", "engagement">>],
       [dept |-> "communications", keywords |-> <<"communications", "pr", "press", "media">>] >>

\* classifyDepartment; "" stands for null
ClassifyDepartment(title) ==
    Bind(ToLowerCase(title), LAMBDA lowerTitle :
    Bind({d \in 1..Len(RELEVANT_DEPARTMENTS) :
            \E k \in 1..Len(RELEVANT_DEPARTMENTS[d].keywords) :
               Includes(lowerTitle, RELEVANT_DEPARTMENTS[d].keywords[k])},
         LAMBDA hits :
      IF hits = {} THEN "" ELSE RELEVANT_DEPARTMENTS[Min(hits)].dept))

\* /\b(a|...).*(b|...)\b/i on a lower-cased title without line breaks
TitlePairMatches(lower, firsts, seconds) ==
    \E i \in 1..Len(lower), j \in 1..Len(lower) :
       /\ WordBoundary(lower, i)
       /\ \E a \in LiteralsAt(lower, i, firsts) :
             /\ j >= i + Len(firsts[a])
             /\ \E b \in LiteralsAt(lower, j, seconds) :
                   WordBoundary(lower, j + Len(seconds[b]))

TITLE_ROLES == <<"head", "director", "manager">>
TITLE_FIELDS ==
    <<"marketing", "brand", "partnership", "sponsorship", "community", "csr", "sports">>

\* isRelevantTitle: RELEVANT_TITLES (lines 24-29)
IsRelevantTitle(title) ==
    Bind(ToLowerCase(title), LAMBDA lower :
      \/ \E i \in 1..Len(lower) :
            AlternativeAt(lower, i, <<"cmo", "chief marketing officer">>) > 0
      \/ TitlePairMatches(lower, <<"vp", "vice president">>,
                          <<"marketing", "brand", "partnership", "sponsorship">>)
      \/ TitlePairMatches(lower, TITLE_ROLES, TITLE_FIELDS)
      \/ TitlePairMatches(lower, TITLE_FIELDS, TITLE_ROLES))

\* [A-Z][a-z]+
IsCapitalizedWord(w) ==
    /\ Len(w) >= 2
    /\ SubSeq(w, 1, 1) \in DOMAIN UpperToLower
    /\ \A i \in 2..Len(w) : SubSeq(w, i, i) \in Letters

\* /^[A-Z][a-z]+(\s+[A-Z][a-z]+){1,most}$/ on a name whose whitespace is
\* the space
IsPersonName(name, most) ==
    Bind(SelectSeq(Split(name, " "), LAMBDA w : w # ""), LAMBDA words :
      /\ name # ""
      /\ ~StartsWith(name, " ") /\ ~EndsWith(name, " ")
      /\ Len(words) >= 2 /\ Len(words) <= most + 1
      /\ \A k \in 1..Len(words) : IsCapitalizedWord(words[k]))

\* generatePersonLinkedInUrl (linkedin.ts, lines 62-74)
GeneratePersonLinkedInUrl(personName, companyName) ==
    "https://www.linkedin.com/search/results/people/?keywords="
      \o FormEncode(personName \o " " \o companyName) \o "&origin=GLOBAL_SEARCH_HEADER"

\* an ExtractedPerson; "" stands for a null jobTitle or department
ExtractedPerson(name, jobTitle, department, sourceUrl, companyName) ==
    [name |-> name, jobTitle |-> jobTitle, department |-> department,
     sourceUrl |-> sourceUrl,
     linkedinSearchUrl |-> GeneratePersonLinkedInUrl(name, companyName)]

\* the selectors of extractPeopleFromTeamPage (lines 58-67): a class
\* selector or an attribute selector [class*="..."]
TEAM_SELECTORS ==
    << [exact |-> TRUE, value |-> "team-member"], [exact |-> TRUE, value |-> "person"],
       [exact |-> TRUE, value |-> "staff"],       [exact |-> TRUE, value |-> "executive"],
       [exact |-> TRUE, value |-> "leadership-card"],
       [exact |-> FALSE, value |-> "team"],       [exact |-> FALSE, value |-> "person"],
       [exact |-> FALSE, value |-> "member"] >>

\* the elements with a class attribute of a document, in document order:
\* class, the text of the first heading and of the first title element
\* below it, and its own text
TeamElements(html) ==
    IF html = SiteAbout.html
    THEN << [class |-> "team-member", heading |-> " Jane Doe ",
             role |-> "Head of Partnerships",
             text |-> "Jane Doe\nHead of Partnerships"],
            [class |-> "person card", heading |-> "", role |-> "",
             text |-> "Mark Lee\n Marketing Director \n\nmark@acme.com"],
            [class |-> "staff", heading |-> "Support", role |-> "Brand desk",
             text |-> "Support\nBrand desk"],
            [class |-> "executive", heading |-> "Ann Ray", role |-> "Accountant",
             text |-> "Ann Ray\nAccountant"] >>
    ELSE IF html = SiteLeadership.html
    THEN << [class |-> "leadership-card", heading |-> "Mark Lee", role |-> "CMO",
             text |-> "Mark Lee\nCMO"] >>
    ELSE <<>>

\* $(selector): the elements the selector matches
SelectorMatches(selector, element) ==
    IF selector.exact
    THEN \E t \in 1..Len(Split(element.class, " ")) :
            Split(element.class, " ")[t] = selector.value
    ELSE Includes(element.class, selector.value)

\* lines 83: text.split('\n').map(trim).filter(Boolean)
TextLines(text) ==
    Bind(Split(text, "\n"), LAMBDA raw :
      SelectSeq([k \in 1..Len(raw) |-> Trim(raw[k])], LAMBDA l : l # ""))

\* the width below which the text of an element is read line by line
\* (line 82)
MAX_CARD_TEXT == 200

\* lines 71-104, for one matched element
TeamPersonOf(element, sourceUrl, companyName) ==
    Bind(Trim(element.heading), LAMBDA heading :
    Bind(IF heading = "" /\ Len(element.text) < MAX_CARD_TEXT
         THEN TextLines(element.text) ELSE <<>>,
         LAMBDA lines :
    Bind(IF Len(lines) >= 1 THEN lines[1] ELSE heading, LAMBDA name :
    Bind(IF Len(lines) >= 1 THEN (IF Len(lines) >= 2 THEN lines[2] ELSE "")
         ELSE Trim(element.role),
         LAMBDA jobTitle :
      IF name # "" /\ IsPersonName(name, 3)
      THEN Bind(ClassifyDepartment(jobTitle), LAMBDA department :
             IF IsRelevantTitle(jobTitle) \/ department # ""
             THEN <<ExtractedPerson(name, jobTitle, department, sourceUrl, companyName)>>
             ELSE <<>>)
      ELSE <<>>))))

\* extractPeopleFromTeamPage, for the selectors k.. and the elements e.. of
\* selector k
RECURSIVE TeamPeopleFrom(_, _, _, _, _)
TeamPeopleFrom(elements, k, e, sourceUrl, companyName) ==
    IF k > Len(TEAM_SELECTORS) THEN <<>>
    ELSE IF e > Len(elements) THEN TeamPeopleFrom(elements, k + 1, 1, sourceUrl, companyName)
    ELSE (IF SelectorMatches(TEAM_SELECTORS[k], elements[e])
          THEN TeamPersonOf(elements[e], sourceUrl, companyName) ELSE <<>>)
         \o TeamPeopleFrom(elements, k, e + 1, sourceUrl, companyName)

\* extractPeopleFromTeamPage
ExtractPeopleFromTeamPage(html, sourceUrl, companyName) ==
    Bind(TeamElements(html), LAMBDA elements :
      TeamPeopleFrom(elements, 1, 1, sourceUrl, companyName))

\* text.matchAll of the two patterns of lines 120-121, in pattern order:
\* match[1] and match[2] ("" when the group is undefined)
TextMatches(text) ==
    IF text = SiteAbout.text
    THEN << [name |-> "Jane Doe", title |-> "Head of Partnerships"] >>
    ELSE IF text = SiteLeadership.text
    THEN << [name |-> "Jane Doe", title |-> "Director of Marketing"],
            [name |-> "Mark Lee", title |-> ""],
            [name |-> "Ann Ray and", title |-> ""] >>
    ELSE <<>>

\* extractPeopleFromText, lines 126-143, for the matches from m on
RECURSIVE TextPeopleFrom(_, _, _, _, _)
TextPeopleFrom(matches, m, sourceUrl, companyName, people) ==
    IF m > Len(matches) THEN people
    ELSE Bind(Trim(matches[m].name), LAMBDA name :
         Bind(Trim(matches[m].title), LAMBDA jobTitle :
         Bind(IF name # "" /\ IsPersonName(name, 2)
                   /\ ~\E p \in 1..Len(people) : people[p].name = name
              THEN Append(people,
                          ExtractedPerson(name, jobTitle,
                                          IF jobTitle # "" THEN ClassifyDepartment(jobTitle)
                                          ELSE "",
                                          sourceUrl, companyName))
              ELSE people,
              LAMBDA pushed :
           TextPeopleFrom(matches, m + 1, sourceUrl, companyName, pushed))))

\* extractPeopleFromText
ExtractPeopleFromText(text, sourceUrl, companyName) ==
    Bind(TextMatches(text), LAMBDA matches :
      TextPeopleFrom(matches, 1, sourceUrl, companyName, <<>>))

\* extractPeople, line 240
IsTeamPage(path) ==
    Includes(path, "team") \/ Includes(path, "leadership") \/ Includes(path, "about")

\* extractPeople, lines 263-268: the people of one page, by seenNames
RECURSIVE AddUnseenPeople(_, _, _)
AddUnseenPeople(allPeople, seenNames, extracted) ==
    IF extracted = <<>> THEN [allPeople |-> allPeople, seenNames |-> seenNames]
    ELSE Bind(Head(extracted), LAMBDA person :
         Bind(ToLowerCase(person.name) \in seenNames, LAMBDA seen :
         Bind(IF seen THEN allPeople ELSE Append(allPeople, person), LAMBDA pushed :
         Bind(seenNames \cup {ToLowerCase(person.name)}, LAMBDA names :
         Bind(Tail(extracted), LAMBDA others :
           AddUnseenPeople(pushed, names, others))))))

\* extractPeople, lines 236-269, for the entries i.. of the Map
RECURSIVE CollectPeople(_, _, _, _, _)
CollectPeople(crawlResults, companyName, i, allPeople, seenNames) ==
    IF i > Len(crawlResults) THEN allPeople
    ELSE Bind(crawlResults[i].key, LAMBDA path :
         Bind(crawlResults[i].value, LAMBDA result :
           IF ~result.success
           THEN CollectPeople(crawlResults, companyName, i + 1, allPeople, seenNames)
           ELSE Bind((IF IsTeamPage(path)
                      THEN ExtractPeopleFromTeamPage(result.html, result.url, companyName)
                      ELSE <<>>)
                     \o ExtractPeopleFromText(result.text, result.url, companyName),
                     LAMBDA extracted :
                Bind(AddUnseenPeople(allPeople, seenNames, extracted), LAMBDA kept :
                  CollectPeople(crawlResults, companyName, i + 1,
                                kept.allPeople, kept.seenNames)))))

\* mutant of ExtractPeople: seenNames outlives the call, it starts from the
\* names of the people saved before
ExtractPeople_SeenKept(crawlResults, companyName) ==
    CollectPeople(crawlResults, companyName, 1, <<>>,
                  {ToLowerCase(dbPeople[p].name) : p \in 1..Len(dbPeople)})

\* extractPeople
ExtractPeople(crawlResults, companyName) ==
    CollectPeople(crawlResults, companyName, 1, <<>>, {})

\* what the call of the Wikipedia API did: fetch rejected, response.json()
\* rejected, or the parsed body.  A body is null or an object; pages are the
\* values of data.query.pages in key order, a page without revisions has no
\* content
NetworkError == [kind |-> "network_error"]
NotJson == [kind |-> "not_json"]
JsonBody(data) == [kind |-> "json", data |-> data]
NullData == [isNull |-> TRUE]
NoPages == [isNull |-> FALSE, hasPages |-> FALSE]
Pages(pages) == [isNull |-> FALSE, hasPages |-> TRUE, pages |-> pages]
MissingPage == [hasContent |-> FALSE]
Article(content) == [hasContent |-> TRUE, content |-> content]

WikiInfobox ==
    "{{Infobox company | key_people = [[Jane Doe]] (Head of Brand), [[Acme Holdings]], [[Tom Hill (executive)|Tom Hill]] | industry = Retail}}"
WikiStub == "Acme is a company. {{stub}}"

\* lines 190-209: the wiki links inside the capture of the key_people
\* pattern, which ends at the first '|', each with the title in brackets
\* that follows it ("" when there is none)
KeyPeopleLinks(content) ==
    IF content = WikiInfobox
    THEN << [name |-> "Jane Doe", title |-> "Head of Brand"],
            [name |-> "Acme Holdings", title |-> ""] >>
    ELSE <<>>

\* lines 200-220, for the links from m on
RECURSIVE WikiPeopleFrom(_, _, _, _)
WikiPeopleFrom(links, m, wikipediaUrl, companyName) ==
    IF m > Len(links) THEN <<>>
    ELSE Bind(Trim(links[m].name), LAMBDA name :
         Bind(Trim(links[m].title), LAMBDA jobTitle :
           (IF name # "" /\ IsPersonName(name, 2)
            THEN <<ExtractedPerson(name, jobTitle,
                                   IF jobTitle # "" THEN ClassifyDepartment(jobTitle) ELSE "",
                                   wikipediaUrl, companyName)>>
            ELSE <<>>)
           \o WikiPeopleFrom(links, m + 1, wikipediaUrl, companyName)))

\* lines 186-187
PageContent(pages) ==
    IF pages = <<>> THEN ""
    ELSE IF pages[1].hasContent THEN pages[1].content ELSE ""

\* the try block of extractPeopleFromWikipedia (lines 156-221): what it
\* leaves, [thrown, people]
WikipediaTry(wikipediaUrl, companyName, response) ==
    IF response.kind # "json" \/ response.data.isNull
    THEN [thrown |-> TRUE, people |-> <<>>]
    ELSE IF ~response.data.hasPages THEN [thrown |-> FALSE, people |-> <<>>]
    ELSE Bind(KeyPeopleLinks(PageContent(response.data.pages)), LAMBDA links :
           [thrown |-> FALSE,
            people |-> WikiPeopleFrom(links, 1, wikipediaUrl, companyName)])

\* mutant of WikipediaCatch: the error is thrown again
WikipediaCatch_Rethrow(attempt) == attempt

\* the catch block (lines 222-226): the warning is logged, people is returned
WikipediaCatch(attempt) == [thrown |-> FALSE, people |-> attempt.people]

\* extractPeopleFromWikipedia
ExtractPeopleFromWikipedia(wikipediaUrl, companyName, response) ==
    Bind(WikipediaTry(wikipediaUrl, companyName, response), LAMBDA attempt :
      IF attempt.thrown THEN WikipediaCatch(attempt) ELSE attempt)

\* savePeople: the rows of the company after the DELETE and the INSERTs
SavePeople(people) ==
    [i \in 1..Len(people) |->
       [name |-> people[i].name, jobTitle |-> people[i].jobTitle,
        department |-> people[i].department, sourceUrl |-> people[i].sourceUrl,
        linkedinSearchUrl |-> people[i].linkedinSearchUrl]]

NoResponse == [kind |-> "none"]

\* Step 4 (lines 464-478) up to the await of line 471, or to savePeople when
\* the company has no wikipedia_url
ExtractPeopleStep ==
    /\ qpc = "extracted"
    /\ sitePeople' = ExtractPeople(qCrawlResults, company.name)
    /\ wikiResponse' = NoResponse
    /\ IF company.wikipediaUrl # ""
       THEN qpc' = "wikipedia" /\ UNCHANGED dbPeople
       ELSE qpc' = "people" /\ dbPeople' = SavePeople(sitePeople')
    /\ UNCHANGED <<company, qCrawlResults, dbSignals, qContacts, contactPaths, readContacts,
                   qRankedPaths, selection, runs, earlier>>

\* Step 4 from the await on: extractPeopleFromWikipedia returns or throws,
\* the lists are merged and saved; an exception leaves the loop for the
\* catch of the command
WikipediaReturns(response) ==
    /\ qpc = "wikipedia"
    /\ wikiResponse' = response
    /\ LET wiki == ExtractPeopleFromWikipedia(company.wikipediaUrl, company.name, response)
       IN IF wiki.thrown
          THEN qpc' = "aborted" /\ UNCHANGED dbPeople
          ELSE qpc' = "people" /\ dbPeople' = SavePeople(sitePeople \o wiki.people)
    /\ UNCHANGED <<company, qCrawlResults, dbSignals, qContacts, contactPaths, readContacts,
                   qRankedPaths, selection, sitePeople, runs, earlier>>

\* runs of the qualify command for one company
MaxRuns == 2

NoEarlier == [signals |-> <<>>, contacts |-> <<>>, people |-> <<>>]

\* the qualify command is run again for the company, on a site that serves
\* the same pages, `later` ms after the people were saved; the crawl of the
\* second run left its own lastRequestTime
Rerun(later) ==
    /\ qpc = "people"
    /\ runs < MaxRuns
    /\ runs' = runs + 1
    /\ earlier' = [signals |-> dbSignals, contacts |-> qContacts, people |-> sitePeople]
    /\ qpc' = "crawled"
    /\ clock' = clock + later
    /\ lastRequestTime' = clock + later
    /\ UNCHANGED <<pc, wakeAt, fetchUrl, fetchRet, settled, requestCount>>
    /\ UNCHANGED <<company, qCrawlResults, dbSignals, qContacts, contactPaths, dbPeople,
                   readContacts, qRankedPaths, selection, sitePeople, wikiResponse>>

-----------------------------------------------------------------------------
(* The store: saveSignals, saveContacts and savePeople statement by        *)
(* statement (analyzer.ts, contacts/extractor.ts, people/extractor.ts) on  *)
(* the tables of db/schema.ts.  A stored row is [id, companyId, row].      *)

\* the tables in the order the qualify command writes them
TABLES == <<"sponsorship_signals", "contact_paths", "people">>

\* saveSignals, line 126: the values of one INSERT; "" stands for NULL
SaveSignals(sigs) ==
    [i \in 1..Len(sigs) |->
       [signalType |-> sigs[i].type, signalText |-> sigs[i].text, sourceUrl |-> ""]]

\* the rows the INSERT loop of the save function of table t writes
RowsToInsert(t, found) ==
    CASE TABLES[t] = "sponsorship_signals" -> SaveSignals(found)
      [] TABLES[t] = "contact_paths" -> SaveContacts(found)
      [] TABLES[t] = "people" -> SavePeople(found)

\* id INTEGER PRIMARY KEY: the rowid SQLite gives an inserted row
NextRowId(stored) ==
    IF stored = <<>> THEN 1
    ELSE 1 + (CHOOSE m \in {stored[i].id : i \in 1..Len(stored)} :
                \A i \in 1..Len(stored) : stored[i].id <= m)

\* mutant of DeleteCompanyRows: the DELETE statement is missing
DeleteCompanyRows_None(stored, companyId) == stored

\* DELETE FROM <table> WHERE company_id = ?
DeleteCompanyRows(stored, companyId) ==
    SelectSeq(stored, LAMBDA r : r.companyId # companyId)

\* INSERT INTO <table> (company_id, ...) VALUES (?, ...)
InsertRow(stored, companyId, row) ==
    Append(stored, [id |-> NextRowId(stored), companyId |-> companyId, row |-> row])

EmptyStore == [t \in 1..Len(TABLES) |-> <<>>]

NotSaving == [phase |-> "idle"]

\* qualify runs that write to the store
MaxStoreRuns == 2

\* the table the next save call writes
NextTable ==
    IF saving.phase = "idle" \/ saving.table = Len(TABLES) THEN 1 ELSE saving.table + 1

\* a save function is called: saveSignals for a company, then saveContacts
\* and savePeople for the same one (lines 444, 450, 478 of the command)
BeginSave(companyId, found) ==
    /\ saving.phase \in {"idle", "done"}
    /\ NextTable > 1 => companyId = saving.companyId
    /\ NextTable = 1 => storeRuns < MaxStoreRuns
    /\ storeRuns' = IF NextTable = 1 THEN storeRuns + 1 ELSE storeRuns
    /\ saving' = [phase |-> "delete", table |-> NextTable, companyId |-> companyId,
                  rows |-> RowsToInsert(NextTable, found), inserted |-> 0]
    /\ snapshot' = store
    /\ UNCHANGED store

\* the DELETE statement ran
DeleteStatement ==
    /\ saving.phase = "delete"
    /\ store' = [store EXCEPT ![saving.table] = DeleteCompanyRows(@, saving.companyId)]
    /\ saving' = [saving EXCEPT !.phase = "insert"]
    /\ UNCHANGED <<snapshot, storeRuns>>

\* one INSERT statement of the loop ran
InsertStatement ==
    /\ saving.phase = "insert"
    /\ saving.inserted < Len(saving.rows)
    /\ store' = [store EXCEPT ![saving.table] =
                   InsertRow(@, saving.companyId, saving.rows[saving.inserted + 1])]
    /\ saving' = [saving EXCEPT !.inserted = @ + 1]
    /\ UNCHANGED <<snapshot, storeRuns>>

\* the loop is over, the save function returns
SaveReturns ==
    /\ saving.phase = "insert"
    /\ saving.inserted = Len(saving.rows)
    /\ saving' = [saving EXCEPT !.phase = "done"]
    /\ UNCHANGED <<store, snapshot, storeRuns>>

\* a statement throws (SQLITE_BUSY, SQLITE_FULL, an I/O error) or the
\* process is stopped: the statements that ran are committed, each on its
\* own, the others never run
SaveFails ==
    /\ saving.phase \in {"delete", "insert"}
    /\ saving' = [saving EXCEPT !.phase = "failed"]
    /\ UNCHANGED <<store, snapshot, storeRuns>>

-----------------------------------------------------------------------------
(* The environment: the sites, the network, the companies *)

BaseUrls == {"acme.com/", "http://Acme.com/en", "http//acme.com"}

\* what a site serves for a URL during a crawl
DocsFor(url) == IF url = normalizedBase THEN HomeDocs ELSE {SubDoc}

BodyOutcomes(docs) == {BodyError} \cup {[kind |-> "body", doc |-> d] : d \in docs}

\* network latencies, timer lateness and pauses between two calls, in ms
Latencies == {0, 1200, ABORT_TIMEOUT_MS}
BodyLatencies == {0, 400}
TimerLateness == {0, 3}
Gaps == {0, 300}

FetchUrls == {"https://acme.com", "https://other.org/about"}

\* a standalone caller awaits one fetchPage call after the other
CallFetchPage(url, gap) ==
    /\ cpc = "idle"
    /\ pc \in {"idle", "returned"}
    /\ requestCount < MaxRequests
    /\ BeginFetch(url, clock + gap)
    /\ UNCHANGED crawlVars

\* the crawl of a company site: the homepage, then some of the pages it
\* links to, in the order of the links; a homepage that failed stands alone
MaxPages == 3

SiteUrl == "https://acme.com"

SitePages ==
    { [key |-> "/about", value |-> PageSuccess(NormalizeUrl(SiteUrl, "/about"), SiteAbout)],
      [key |-> "/contact", value |-> PageSuccess(NormalizeUrl(SiteUrl, "/contact"), SiteContact)],
      [key |-> "/press", value |-> PageSuccess(NormalizeUrl(SiteUrl, "/press"), SitePress)],
      [key |-> "/partners", value |-> PageSuccess(NormalizeUrl(SiteUrl, "/partners"), SitePartners)],
      [key |-> "/team", value |-> HttpFailure(NormalizeUrl(SiteUrl, "/team"), 404)] }

RECURSIVE Arrangements(_, _)
Arrangements(S, n) ==
    IF n = 0 THEN {<<>>}
    ELSE {<<>>} \cup UNION { { <<x>> \o t : t \in Arrangements(S \ {x}, n - 1) } : x \in S }

PageCollections ==
    { << [key |-> "/", value |-> HttpFailure(SiteUrl, 404)] >> }
      \cup { << [key |-> "/", value |-> PageSuccess(SiteUrl, home)] >> \o rest :
               home \in {PlainHome, SiteHome}, rest \in Arrangements(SitePages, MaxPages - 1) }

HomeOnly == << [key |-> "/", value |-> PageSuccess(SiteUrl, SiteHome)] >>

\* what an earlier run of the command stored for the company
EarlierPages ==
    HomeOnly \o << [key |-> "/about", value |-> PageSuccess("https://acme.com/about", SiteAbout)],
                   [key |-> "/press", value |-> PageSuccess("https://acme.com/press", SitePress)] >>

EarlierSignals == AnalyzePageContent(EarlierPages)

EarlierContactPaths ==
    Bind(SaveContacts(ExtractContacts(EarlierPages, SiteUrl)), LAMBDA rows :
    Bind(CHOOSE read \in GetCompanyContacts(rows) : TRUE, LAMBDA read :
      SavePathSelection(rows, SelectBestPaths(read, <<>>, "Acme", ""))))

\* the row of the company: never qualified before, qualified by an earlier
\* run, or rejected by the user after an earlier run
Companies ==
    { [name |-> "Acme", websiteUrl |-> w, score |-> 0, status |-> "unqualified"] :
        w \in {"acme.com", "https://acme.com/"} }
      \cup { [name |-> "Acme", websiteUrl |-> "https://acme.com/",
              score |-> CalculateQualificationScore(EarlierSignals), status |-> st] :
               st \in {"qualified", "rejected"} }

Person(name, jobTitle) ==
    [name |-> name, jobTitle |-> jobTitle, sourceUrl |-> NormalizeUrl(SiteUrl, "/about")]

\* what the people extractors find; "" stands for a null job title
PeopleLists ==
    { <<>>,
      << Person("Jane Doe", "Head of Partnerships") >>,
      << Person("Mark Lee", "") >>,
      << Person("Mark Lee", ""), Person("Jane Doe", "Head of Partnerships") >>,
      << Person("Jane Doe", "Head of Partnerships"), Person("John Doe", "Brand Manager") >> }

\* addresses on pages: the prefixes the extractor classifies, on real and on
\* placeholder domains, without a domain, and around the length bound
RECURSIVE Repeat(_, _)
Repeat(c, n) ==
    IF n = 0 THEN "" ELSE IF n = 1 THEN c
    ELSE Repeat(c, n \div 2) \o Repeat(c, n - n \div 2)

Locals ==
    {"partnerships", "sponsor", "Marketing", "brand.team", "press", "pr", "info",
     "contact", "hello", "jane.doe", "sales"}

Domains ==
    {"acme.com", "realcompany.com", "example.com", "mail.example.com", "email.com",
     "domain.com", "test.com", "contest.com", "maildomain.community", "Example.COM"}

Emails ==
    { l \o "@" \o d : l \in Locals, d \in Domains }
      \cup { "plainaddress", "info@",
             Repeat("a", MAX_EMAIL_LENGTH - 9) \o "@acme.com",
             Repeat("a", MAX_EMAIL_LENGTH - 8) \o "@acme.com" }

\* the companies of the runs with a people step: with and without a
\* wikipedia_url ("" stands for NULL)
RunCompanies ==
    { [name |-> "Acme", websiteUrl |-> "https://acme.com/", wikipediaUrl |-> w,
       score |-> 0, status |-> "unqualified"] :
        w \in {"", "https://en.wikipedia.org/wiki/Acme_Corp"} }

RunPages ==
    { [key |-> "/about", value |-> PageSuccess("https://acme.com/about", SiteAbout)],
      [key |-> "/leadership",
       value |-> PageSuccess("https://acme.com/leadership", SiteLeadership)],
      [key |-> "/contact", value |-> PageSuccess("https://acme.com/contact", SiteContact)] }

RunCollections ==
    { << [key |-> "/", value |-> HttpFailure(SiteUrl, 404)] >> }
      \cup { HomeOnly \o rest : rest \in Arrangements(RunPages, MaxPages - 1) }

\* what the Wikipedia API call can do
WikiResponses ==
    { NetworkError, NotJson, JsonBody(NullData), JsonBody(NoPages), JsonBody(Pages(<<>>)),
      JsonBody(Pages(<<MissingPage>>)), JsonBody(Pages(<<Article(WikiStub)>>)),
      JsonBody(Pages(<<Article(WikiInfobox)>>)) }

\* time between two runs of the command, in ms
RerunDelays == {500, 60000}

\* the store: two companies, and what the extractors return for two crawls
\* of a site
CompanyIds == {1, 2}

StorePages ==
    { HomeOnly,
      HomeOnly \o << [key |-> "/about", value |-> PageSuccess("https://acme.com/about", SiteAbout)],
                     [key |-> "/press", value |-> PageSuccess("https://acme.com/press", SitePress)] >> }

FoundSignals == {AnalyzePageContent(p) : p \in StorePages}
FoundContacts == {ExtractContacts(p, SiteUrl) : p \in StorePages}
FoundPeople == {ExtractPeople(p, "Acme") : p \in StorePages}

FoundLists(t) ==
    CASE TABLES[t] = "sponsorship_signals" -> FoundSignals
      [] TABLES[t] = "contact_paths" -> FoundContacts
      [] TABLES[t] = "people" -> FoundPeople

\* the rows of a list inserted for a company
RECURSIVE InsertAll(_, _, _)
InsertAll(stored, companyId, rows) ==
    IF rows = <<>> THEN stored
    ELSE Bind(InsertRow(stored, companyId, Head(rows)), LAMBDA next :
         Bind(Tail(rows), LAMBDA others : InsertAll(next, companyId, others)))

\* the store before the runs: empty, or filled by an earlier run for each
\* company
StoredBefore ==
    { EmptyStore,
      [t \in 1..Len(TABLES) |->
         Bind(CHOOSE found \in FoundLists(t) : \A other \in FoundLists(t) : Len(other) <= Len(found),
              LAMBDA found :
         Bind(InsertAll(<<>>, 1, RowsToInsert(t, found)), LAMBDA first :
           InsertAll(first, 2, RowsToInsert(t, found))))] }

-----------------------------------------------------------------------------
(* Specifications *)

vars == <<fetchVars, crawlVars, qualifyVars, emailVars, peopleVars, storeVars, concVars>>

QualifyIdle ==
    /\ qpc = "idle"
    /\ company = [name |-> "", websiteUrl |-> "", score |-> 0, status |-> "unqualified"]
    /\ qCrawlResults = <<>>
    /\ dbSignals = <<>>
    /\ qContacts = <<>>
    /\ contactPaths = <<>>
    /\ dbPeople = <<>>
    /\ readContacts = <<>>
    /\ qRankedPaths = <<>>
    /\ selection = NoSelection

EmailIdle ==
    /\ address = ""
    /\ emailContact = NoContact

PeopleIdle ==
    /\ sitePeople = <<>>
    /\ wikiResponse = NoResponse
    /\ runs = 0
    /\ earlier = NoEarlier

StoreIdle ==
    /\ store = EmptyStore
    /\ saving = NotSaving
    /\ snapshot = EmptyStore
    /\ storeRuns = 0

NoCalls == calls = [c \in Callers |-> NotCalled]

ProcessStart ==
    /\ clock = StartTime
    /\ lastRequestTime = 0
    /\ pc = "idle"
    /\ wakeAt = 0
    /\ fetchUrl = ""
    /\ fetchRet = Pending
    /\ settled = NotSettled
    /\ requestCount = 0
    /\ cpc = "idle"
    /\ normalizedBase = ""
    /\ results = <<>>
    /\ pathsToFetch = <<>>
    /\ idx = 0
    /\ crawlRequests = 0
    /\ attempted = <<>>
    /\ crawls = 0

Init == ProcessStart /\ QualifyIdle /\ EmailIdle /\ PeopleIdle /\ StoreIdle /\ NoCalls

\* sequential fetchPage calls under every timing
FetchNext ==
    \/ \E url \in FetchUrls, gap \in Gaps :
          CallFetchPage(url, gap) /\ UNCHANGED <<qualifyVars, emailVars, peopleVars, storeVars, concVars>>
    \/ \E late \in TimerLateness :
          TimerFires(late) /\ UNCHANGED <<crawlVars, qualifyVars, emailVars, peopleVars, storeVars, concVars>>
    \/ FetchSettles(Latencies) /\ UNCHANGED <<crawlVars, qualifyVars, emailVars, peopleVars, storeVars, concVars>>
    \/ \E lat \in BodyLatencies, b \in BodyOutcomes({SubDoc, LinkedDoc}) :
          BodySettles(lat, b) /\ UNCHANGED <<crawlVars, qualifyVars, emailVars, peopleVars, storeVars, concVars>>

FetchSpec == Init /\ [][FetchNext]_vars

\* what the runtime guarantees to a fetchPage call: a timer that is due
\* fires, and `await fetch(...)` settles, by the abort timer of line 50 at the
\* latest.  Nothing is guaranteed for `await response.text()`: the finally of
\* line 64 cleared the abort timer when fetch() resolved.
TimerStep ==
    \E late \in TimerLateness :
        TimerFires(late) /\ UNCHANGED <<crawlVars, qualifyVars, emailVars, peopleVars, storeVars, concVars>>

FetchSettleStep ==
    FetchSettles(Latencies) /\ UNCHANGED <<crawlVars, qualifyVars, emailVars, peopleVars, storeVars, concVars>>

FetchLiveSpec ==
    Init /\ [][FetchNext]_vars /\ WF_vars(TimerStep) /\ WF_vars(FetchSettleStep)

\* crawls; every request is answered at once (the abort timer never fires)
CrawlNext ==
    \/ \E baseUrl \in BaseUrls : StartCrawl(baseUrl) /\ UNCHANGED <<qualifyVars, emailVars, peopleVars, storeVars, concVars>>
    \/ TimerFires(0) /\ UNCHANGED <<crawlVars, qualifyVars, emailVars, peopleVars, storeVars, concVars>>
    \/ FetchSettles({0}) /\ UNCHANGED <<crawlVars, qualifyVars, emailVars, peopleVars, storeVars, concVars>>
    \/ \E b \in BodyOutcomes(DocsFor(fetchUrl)) :
          BodySettles(0, b) /\ UNCHANGED <<crawlVars, qualifyVars, emailVars, peopleVars, storeVars, concVars>>
    \/ HomepageReturned /\ UNCHANGED <<qualifyVars, emailVars, peopleVars, storeVars, concVars>>
    \/ SubpathReturned /\ UNCHANGED <<qualifyVars, emailVars, peopleVars, storeVars, concVars>>

CrawlSpec == Init /\ [][CrawlNext]_vars

\* the qualify command from the return of crawlCompanyWebsite on, for every
\* crawl result of the site
QualifyInit ==
    /\ ProcessStart
    /\ EmailIdle
    /\ PeopleIdle
    /\ StoreIdle
    /\ NoCalls
    /\ qpc = "crawled"
    /\ company \in Companies
    /\ qCrawlResults \in PageCollections
    /\ dbSignals = (IF company.score = 0 THEN <<>> ELSE EarlierSignals)
    /\ qContacts = <<>>
    /\ contactPaths = (IF company.score = 0 THEN <<>> ELSE EarlierContactPaths)
    /\ dbPeople = <<>>
    /\ readContacts = <<>>
    /\ qRankedPaths = <<>>
    /\ selection = NoSelection

QualifyNext ==
    \/ AnalyzeStep /\ UNCHANGED <<fetchVars, crawlVars, emailVars, peopleVars, storeVars, concVars>>
    \/ ContactsStep /\ UNCHANGED <<fetchVars, crawlVars, emailVars, peopleVars, storeVars, concVars>>
    \/ \E found \in PeopleLists : PeopleStep(found) /\ UNCHANGED <<fetchVars, crawlVars, emailVars, peopleVars, storeVars, concVars>>
    \/ SelectStep /\ UNCHANGED <<fetchVars, crawlVars, emailVars, peopleVars, storeVars, concVars>>

QualifySpec == QualifyInit /\ [][QualifyNext]_vars

\* extractEmails on every address of the environment
EmailInit ==
    /\ ProcessStart
    /\ QualifyIdle
    /\ PeopleIdle
    /\ StoreIdle
    /\ NoCalls
    /\ address \in Emails
    /\ emailContact = NoContact

EmailNext ==
    ExtractOneEmail /\ UNCHANGED <<fetchVars, crawlVars, qualifyVars, peopleVars, storeVars, concVars>>

EmailSpec == EmailInit /\ [][EmailNext]_vars

\* the qualify command with its people step, run MaxRuns times for a
\* company whose site serves the same pages each time
RunInit ==
    /\ ProcessStart
    /\ EmailIdle
    /\ StoreIdle
    /\ NoCalls
    /\ qpc = "crawled"
    /\ company \in RunCompanies
    /\ qCrawlResults \in RunCollections
    /\ dbSignals = <<>>
    /\ qContacts = <<>>
    /\ contactPaths = <<>>
    /\ dbPeople = <<>>
    /\ readContacts = <<>>
    /\ qRankedPaths = <<>>
    /\ selection = NoSelection
    /\ sitePeople = <<>>
    /\ wikiResponse = NoResponse
    /\ runs = 1
    /\ earlier = NoEarlier

RunNext ==
    \/ AnalyzeStep /\ UNCHANGED <<fetchVars, crawlVars, emailVars, peopleVars, storeVars, concVars>>
    \/ ContactsStep /\ UNCHANGED <<fetchVars, crawlVars, emailVars, peopleVars, storeVars, concVars>>
    \/ ExtractPeopleStep /\ UNCHANGED <<fetchVars, crawlVars, emailVars, storeVars, concVars>>
    \/ \E response \in WikiResponses :
          WikipediaReturns(response) /\ UNCHANGED <<fetchVars, crawlVars, emailVars, storeVars, concVars>>
    \/ \E later \in RerunDelays :
          Rerun(later) /\ UNCHANGED <<crawlVars, emailVars, storeVars, concVars>>

RunSpec == RunInit /\ [][RunNext]_vars

\* the save calls of qualify runs on a store that earlier runs may have
\* filled
StoreInit ==
    /\ ProcessStart
    /\ QualifyIdle
    /\ EmailIdle
    /\ PeopleIdle
    /\ NoCalls
    /\ store \in StoredBefore
    /\ saving = NotSaving
    /\ snapshot = store
    /\ storeRuns = 0

StoreNext ==
    \/ \E companyId \in CompanyIds, found \in FoundLists(NextTable) :
          BeginSave(companyId, found)
            /\ UNCHANGED <<fetchVars, crawlVars, qualifyVars, emailVars, peopleVars, concVars>>
    \/ DeleteStatement /\ UNCHANGED <<fetchVars, crawlVars, qualifyVars, emailVars, peopleVars, concVars>>
    \/ InsertStatement /\ UNCHANGED <<fetchVars, crawlVars, qualifyVars, emailVars, peopleVars, concVars>>
    \/ SaveReturns /\ UNCHANGED <<fetchVars, crawlVars, qualifyVars, emailVars, peopleVars, concVars>>
    \/ SaveFails /\ UNCHANGED <<fetchVars, crawlVars, qualifyVars, emailVars, peopleVars, concVars>>

StoreSpec == StoreInit /\ [][StoreNext]_vars

\* rateLimitedFetch invocations started without awaiting one another
ConcurrentNext ==
    \/ \E c \in Callers, gap \in Gaps :
          EnterRateLimitedFetch(c, gap)
            /\ UNCHANGED <<crawlVars, qualifyVars, emailVars, peopleVars, storeVars>>
    \/ \E c \in Callers, late \in TimerLateness :
          RateLimitTimerFires(c, late)
            /\ UNCHANGED <<crawlVars, qualifyVars, emailVars, peopleVars, storeVars>>

ConcurrentSpec == Init /\ [][ConcurrentNext]_vars

-----------------------------------------------------------------------------
(* Properties of the fetcher and the crawler *)

EmptyContent(r) == r.html = "" /\ r.text = "" /\ r.links = <<>>

\* C1: once the homepage result stored under '/' is a failure, the crawl is
\* over, the collection holds that one entry (the failed homepage result, of
\* whatever cause) and the crawl issued no fetch but the homepage one.
C1_FailedHomepageEndsCrawl ==
    (MapHas(results, "/") /\ ~MapGet(results, "/").success) =>
        /\ cpc = "done"
        /\ Len(results) = 1
        /\ results[1] = [key |-> "/", value |-> fetchRet]
        /\ crawlRequests = 1
        /\ pc = "returned"

\* a crawl ended on a homepage answered with a non-2xx status
C1_Witness ==
    /\ cpc = "done"
    /\ Len(results) = 1
    /\ ~results[1].value.success
    /\ results[1].value.error = "HTTP 404"
    /\ crawlRequests = 1

\* C2: a crawl issues at most 10 fetches after the homepage one, so at most
\* 11 in all, and its collection holds at most 11 entries.
C2_FetchCap ==
    /\ crawlRequests <= 11
    /\ cpc = "subpaths" => idx <= 10
    /\ Len(pathsToFetch) <= 10
    /\ Len(results) <= 11

\* a finished crawl of a homepage with 12 relevant links: 11 fetches, 11 entries
C2_Witness ==
    /\ cpc = "done"
    /\ MapGet(results, "/").success
    /\ Len(MapGet(results, "/").links) > 10
    /\ crawlRequests = 11
    /\ Len(results) = 11

\* C3: an outgoing request that is not the first of the process starts at
\* least RATE_LIMIT_MS after the one before it (the successive values of
\* lastRequestTime), whatever the host and the pause between the calls.
C3_MinimumInterval ==
    [][(requestCount' = requestCount + 1 /\ requestCount >= 1)
          => lastRequestTime' - lastRequestTime >= RATE_LIMIT_MS]_vars

\* a second request to another host, started by the rate-limit timer
C3_Witness ==
    /\ requestCount = 2
    /\ pc = "fetching"
    /\ lastRequestTime = wakeAt
    /\ fetchUrl = "https://other.org/about"
    /\ clock = lastRequestTime

\* C4: fetchPage never throws; a thrown fetch (transport error, abort) or body
\* read returns a failure with empty content and the cause as error; a
\* non-2xx response returns the failure 'HTTP <status>'; success is returned
\* only for a 2xx response whose body was read.
C4_FetchPageTotal ==
    /\ pc # "threw"
    /\ pc = "returned" =>
        /\ settled.kind = "throw" =>
              ~fetchRet.success /\ EmptyContent(fetchRet)
                /\ fetchRet.error = settled.thrown.message
        /\ (settled.kind = "response" /\ ~ResponseOk(settled.status)) =>
              ~fetchRet.success /\ EmptyContent(fetchRet)
                /\ fetchRet.error = "HTTP " \o ToString(settled.status)
        /\ (settled.kind = "response" /\ settled.body = "failed") =>
              ~fetchRet.success /\ EmptyContent(fetchRet)
                /\ fetchRet.error = BodyError.thrown.message
        /\ fetchRet.success <=>
              (settled.kind = "response" /\ settled.status \in 200..299
                 /\ settled.body = "read")

\* a call ended by the abort timer returned a failure
C4_Witness ==
    /\ pc = "returned"
    /\ settled = AbortError
    /\ ~fetchRet.success
    /\ fetchRet.error = "This operation was aborted"

-----------------------------------------------------------------------------
(* Properties of the path selector, the analyzer and the extractor *)

IsSelectedPath(path) ==
    /\ path.type \in {"named_email", "inbox", "agency", "form", "linkedin"}
    /\ path.value # ""

\* C5: selectBestPaths returns a selection (never null) whose primary is a
\* path, for every stored state of contacts and people; with no stored
\* contact and no stored person the primary is the LinkedIn search fallback
\* of score 25 and the backup is null.
C5_SelectionTotal ==
    qpc = "selected" =>
        /\ selection.selected
        /\ IsSelectedPath(selection.primary)
        /\ (contactPaths = <<>> /\ dbPeople = <<>>) =>
              /\ selection.primary.type = "linkedin"
              /\ selection.primary.score = 25
              /\ selection.backup = NoPath

\* a selection for a company without contacts and without people
C5_Witness ==
    /\ qpc = "selected"
    /\ contactPaths = <<>>
    /\ dbPeople = <<>>
    /\ selection.selected
    /\ selection.primary.type = "linkedin"
    /\ selection.backup = NoPath

\* the named_email candidate for contact c and person: its position in
\* rankedPaths (0: there is none)
NamedPathAt(ranked, c, person) ==
    LET at == {k \in 1..Len(ranked) :
                 ranked[k] = [type |-> "named_email", value |-> c.value,
                              personName |-> person.name, personTitle |-> person.jobTitle,
                              score |-> 100, sourceUrl |-> c.sourceUrl]}
    IN IF at = {} THEN 0 ELSE Min(at)

AboveEveryInbox(ranked, k) ==
    \A j \in 1..Len(ranked) : ranked[j].type = "inbox" => k < j

\* the contacts read whose local-part overlaps a token of the person's name
Overlapping(person) ==
    {e \in 1..Len(readContacts) : MightBelongTo(readContacts[e], person)}

\* C6 as stated: every email contact whose local-part overlaps a token of a
\* stored person's name is a named_email candidate linked to that person
\* with score 100, ranked above every inbox candidate.
C6_EveryOverlapNamed ==
    qpc = "selected" =>
        \A p \in 1..Len(dbPeople) : \A e \in Overlapping(dbPeople[p]) :
            LET k == NamedPathAt(qRankedPaths, readContacts[e], dbPeople[p])
            IN k > 0 /\ AboveEveryInbox(qRankedPaths, k)

\* C6, amended: for every stored person with at least one overlapping email
\* contact, the first such contact in the order getCompanyContacts returned
\* is a named_email candidate linked to the person's name and title with
\* score 100, ranked above every inbox candidate, and the primary is then a
\* named_email path; no other contact is named for that person.
C6_FirstOverlapNamed ==
    qpc = "selected" =>
        \A p \in 1..Len(dbPeople) :
            LET hits == Overlapping(dbPeople[p])
            IN hits # {} =>
                 /\ LET k == NamedPathAt(qRankedPaths, readContacts[Min(hits)], dbPeople[p])
                    IN k > 0 /\ AboveEveryInbox(qRankedPaths, k)
                 /\ selection.primary.type = "named_email"
                 /\ selection.primary.score = 100
                 /\ \A e \in hits \ {Min(hits)} :
                       readContacts[e].value # readContacts[Min(hits)].value =>
                          NamedPathAt(qRankedPaths, readContacts[e], dbPeople[p]) = 0

\* Jane Doe with two overlapping contacts of equal confidence: the one read
\* first is her named_email, the other one is a generic inbox
C6_Witness ==
    /\ qpc = "selected"
    /\ \E p \in 1..Len(dbPeople) :
          /\ dbPeople[p].name = "Jane Doe"
          /\ \E e \in Overlapping(dbPeople[p]) :
                /\ e # Min(Overlapping(dbPeople[p]))
                /\ readContacts[e].value = "jane.doe@acme.com"
                /\ \E j \in 1..Len(qRankedPaths) :
                      /\ qRankedPaths[j].type = "inbox"
                      /\ qRankedPaths[j].value = "jane.doe@acme.com"
    /\ selection.primary.type = "named_email"

\* the documented order of the path types
TypeOrder == <<"named_email", "inbox", "agency", "form", "linkedin">>
TypeRank(type) == CHOOSE r \in 1..Len(TypeOrder) : TypeOrder[r] = type

\* C7 as stated: the ranking follows the type order named_email > inbox >
\* agency > form > linkedin: of two candidates of different types the one of
\* the earlier type is never ranked below the other, so a backup never has a
\* type that precedes the primary's.
C7_DocumentedTypeOrder ==
    qpc = "selected" =>
        /\ \A i, j \in 1..Len(qRankedPaths) :
              (i < j /\ qRankedPaths[i].type # qRankedPaths[j].type) =>
                 TypeRank(qRankedPaths[i].type) < TypeRank(qRankedPaths[j].type)
        /\ selection.backup # NoPath =>
              TypeRank(selection.primary.type) <= TypeRank(selection.backup.type)

\* the successful pages of the crawl whose text matches category k
MatchingPages(k) ==
    {i \in 1..Len(qCrawlResults) :
        /\ qCrawlResults[i].value.success
        /\ FirstMatch(qCrawlResults[i].value.text, SIGNAL_PATTERNS[k].words) # ""}

\* the signal analyzePageContent emits for category k found on page i
SignalOfPage(k, i) ==
    [type |-> SIGNAL_PATTERNS[k].type,
     text |-> "[" \o qCrawlResults[i].key \o "] ..."
                \o SnippetOf(qCrawlResults[i].value.text,
                             FirstMatch(qCrawlResults[i].value.text, SIGNAL_PATTERNS[k].words))
                \o "...",
     score |-> SIGNAL_PATTERNS[k].score]

\* C8: what analyzePageContent returned (and the analyze step stored) never
\* holds two signals of the same category, however many pages match it, and
\* the signal of a category is the one of the first successful page, in the
\* iteration order of the collection, that matches the category.
C8_OneSignalPerCategory ==
    qpc = "analyzed" =>
        /\ \A i, j \in 1..Len(dbSignals) : dbSignals[i].type = dbSignals[j].type => i = j
        /\ \A k \in 1..Len(SIGNAL_PATTERNS) :
              LET mine == {i \in 1..Len(dbSignals) : dbSignals[i].type = SIGNAL_PATTERNS[k].type}
              IN IF MatchingPages(k) = {} THEN mine = {}
                 ELSE \E i \in mine : dbSignals[i] = SignalOfPage(k, Min(MatchingPages(k)))

\* two pages match the category sport; the signal is the one of the homepage
C8_Witness ==
    /\ qpc = "analyzed"
    /\ \E k \in 1..Len(SIGNAL_PATTERNS) :
          /\ SIGNAL_PATTERNS[k].type = "sport"
          /\ Cardinality(MatchingPages(k)) >= 2
          /\ \E i \in 1..Len(dbSignals) :
                dbSignals[i] = SignalOfPage(k, 1) /\ qCrawlResults[1].key = "/"

\* C9: the list extractContacts returned is sorted non-increasing by
\* confidence score and no two of its contacts share a value, whatever the
\* pages hold (emails, forms, agency mentions on all pages).
C9_SortedAndDistinct ==
    qpc = "extracted" =>
        /\ \A i, j \in 1..Len(qContacts) :
              i < j => qContacts[i].confidenceScore >= qContacts[j].confidenceScore
        /\ \A i, j \in 1..Len(qContacts) :
              qContacts[i].value = qContacts[j].value => i = j

\* the same agency is mentioned on two crawled pages and listed once, below
\* an email of higher confidence found on a later page
C9_Witness ==
    /\ qpc = "extracted"
    /\ Len(qCrawlResults) = 3
    /\ qCrawlResults[2].key = "/press"
    /\ qCrawlResults[3].key = "/contact"
    /\ Cardinality({i \in 1..Len(qContacts) : qContacts[i].value = "Bright Star PR"}) = 1
    /\ qContacts[1].value = "partnerships@acme.com"
    /\ \E i \in 1..Len(qContacts) : qContacts[i].pathType = "form"

\* the domain part of an address ("" when there is none)
DomainPart(addr) ==
    LET at == IndexOf(addr, "@")
    IN IF at < 0 THEN "" ELSE SubSeq(addr, at + 2, Len(addr))

\* the domain is a blacklisted placeholder domain or a host under one
OnPlaceholderDomain(addr) ==
    \E i \in 1..Len(EMAIL_BLACKLIST) :
        \/ ToLowerCase(DomainPart(addr)) = EMAIL_BLACKLIST[i]
        \/ EndsWith(ToLowerCase(DomainPart(addr)), "." \o EMAIL_BLACKLIST[i])

\* C10 as stated: an address found on a page is rejected exactly when its
\* domain is one of the placeholder domains example.com, email.com,
\* domain.com, test.com, it has no domain part, or it is longer than 100
\* characters; every other address is accepted.
C10_RejectedExactlyWhen ==
    emailContact # NoContact =>
        ((emailContact = Rejected) <=>
            \/ DomainPart(address) = ""
            \/ OnPlaceholderDomain(address)
            \/ Len(address) > 100)

-----------------------------------------------------------------------------
(* Properties of createEmailContact *)

LocalPart(email) == ToLowerCase(Split(email, "@")[1])

MatchingKeywords(email) ==
    {k \in 1..Len(EMAIL_PRIORITY) : Includes(LocalPart(email), EMAIL_PRIORITY[k].type)}

\* C11: the contact made of an accepted address carries the sub-type and the
\* score of the first keyword of EMAIL_PRIORITY its local-part contains, which
\* is the highest score among the keywords it contains; without a keyword it
\* is 'general' with confidence 20.
C11_FirstKeywordClassifies ==
    (emailContact # NoContact /\ emailContact # Rejected) =>
        LET hits == MatchingKeywords(address)
        IN IF hits = {}
           THEN emailContact.emailType = "general" /\ emailContact.confidenceScore = 20
           ELSE /\ emailContact.emailType = EMAIL_PRIORITY[Min(hits)].type
                /\ emailContact.confidenceScore = EMAIL_PRIORITY[Min(hits)].score
                /\ \A k \in hits : EMAIL_PRIORITY[k].score <= emailContact.confidenceScore

\* partnerships@acme.com contains 'partnerships' and 'partner': it is
\* classified 'partnerships' with confidence 100
C11_Witness ==
    /\ address = "partnerships@acme.com"
    /\ Cardinality(MatchingKeywords(address)) > 1
    /\ emailContact # NoContact /\ emailContact # Rejected
    /\ emailContact.emailType = "partnerships"
    /\ emailContact.confidenceScore = 100

-----------------------------------------------------------------------------
(* Properties of the crawl loop *)

HomepageSucceeded == MapHas(results, "/") /\ MapGet(results, "/").success

SignalTypes == {SIGNAL_PATTERNS[k].type : k \in 1..Len(SIGNAL_PATTERNS)}

\* C15: a crawl whose homepage succeeded calls fetchPage for every selected
\* path, whatever the earlier sub-path fetches returned; when every sub-path
\* failed the collection is the homepage alone, and analyzePageContent and
\* extractContacts return well-formed lists for it.
C15_SubpathFailureTolerated ==
    (cpc = "done" /\ HomepageSucceeded) =>
        /\ attempted = <<normalizedBase>>
                         \o [i \in 1..Len(pathsToFetch) |-> normalizedBase \o pathsToFetch[i]]
        /\ (Len(results) = 1) =>
              LET found    == AnalyzePageContent(results)
                  contacts == ExtractContacts(results, normalizedBase)
              IN /\ DOMAIN found = 1..Len(found)
                 /\ \A i \in 1..Len(found) :
                       found[i].type \in SignalTypes /\ StartsWith(found[i].text, "[/] ")
                 /\ DOMAIN contacts = 1..Len(contacts)
                 /\ \A i \in 1..Len(contacts) :
                       contacts[i].sourceUrl = results[1].value.url

\* every sub-path of a crawl with ten selected paths failed
C15_Witness ==
    /\ cpc = "done"
    /\ HomepageSucceeded
    /\ Len(pathsToFetch) = MAX_PATHS
    /\ Len(results) = 1
    /\ Len(attempted) = MAX_PATHS + 1

\* C17 (as stated): a crawl whose homepage succeeded calls fetchPage for
\* every path of RELEVANT_PATHS other than '/'.
C17_AllowListAttempted ==
    (cpc = "done" /\ HomepageSucceeded) =>
        \A k \in 1..Len(RELEVANT_PATHS) :
            RELEVANT_PATHS[k] # "/" =>
                \E i \in 1..Len(attempted) : attempted[i] = normalizedBase \o RELEVANT_PATHS[k]

\* the page a URL names: letter case and a trailing slash do not tell pages
\* apart
PageOf(url) ==
    LET u == ToLowerCase(SerializeUrl(ParseUrl(url)))
    IN IF EndsWith(u, "/") THEN SubSeq(u, 1, Len(u) - 1) ELSE u

\* C18 (as stated): no page is fetched twice within one crawl.
C18_NoPageFetchedTwice ==
    \A i, j \in 1..Len(attempted) : i < j => PageOf(attempted[i]) # PageOf(attempted[j])

\* the host a request for url goes to; none when url is not a URL, as no
\* request is sent then
HostOf(url) == Bind(ParseUrl(url), LAMBDA parsed : IF parsed.ok THEN parsed.hostname ELSE "")

\* the URL object of a homepage link (lines 152-157)
LinkUrl(link) == ParseUrl(NormalizeUrl(normalizedBase, link))

OffHostLink(link) ==
    /\ NormalizeUrl(normalizedBase, link) # ""
    /\ LinkUrl(link).ok
    /\ LinkUrl(link).hostname # HostOf(normalizedBase)

\* C19: every fetchPage call of a crawl goes to the host of normalizedBase
\* (stated for the latest call, which every call once is), and every selected
\* path is a path of the allow-list or the pathname of a
\* homepage link on that host.
C19_SameHostOnly ==
    /\ (attempted # <<>>) =>
          HostOf(attempted[Len(attempted)]) = HostOf(normalizedBase)
    /\ (cpc = "subpaths" /\ idx = 1) =>
          LET links == MapGet(results, "/").links
          IN \A k \in 1..Len(pathsToFetch) :
                \/ \E r \in 1..Len(RELEVANT_PATHS) : pathsToFetch[k] = RELEVANT_PATHS[r]
                \/ \E l \in 1..Len(links) :
                      /\ ~OffHostLink(links[l])
                      /\ NormalizeUrl(normalizedBase, links[l]) # ""
                      /\ LinkUrl(links[l]).ok
                      /\ LinkUrl(links[l]).pathname = pathsToFetch[k]

\* the homepage links to a relevant path on another host
C19_Witness ==
    /\ cpc = "subpaths" /\ idx = 1
    /\ \E l \in 1..Len(MapGet(results, "/").links) :
          LET link == MapGet(results, "/").links[l]
          IN /\ OffHostLink(link)
             /\ IsRelevantPath(ToLowerCase(LinkUrl(link).pathname))
             /\ \A k \in 1..Len(pathsToFetch) : pathsToFetch[k] # LinkUrl(link).pathname

-----------------------------------------------------------------------------
(* Properties of the people step and of repeated runs *)

C14_NoDuplicateNames ==
    qpc = "people" =>
        \A i, j \in 1..Len(dbPeople) :
            i # j => ToLowerCase(dbPeople[i].name) # ToLowerCase(dbPeople[j].name)

\* the lookups that fail: network error, body that is not JSON, null body,
\* no pages, missing page, article without a key_people field
FailedLookups ==
    { NetworkError, NotJson, JsonBody(NullData), JsonBody(NoPages), JsonBody(Pages(<<>>)),
      JsonBody(Pages(<<MissingPage>>)), JsonBody(Pages(<<Article(WikiStub)>>)) }

\* C16: when the Wikipedia lookup fails, extractPeopleFromWikipedia returns
\* an empty list without throwing, the run is not aborted, and the people
\* found on the website are saved.
C16_WikipediaFailureSwallowed ==
    (wikiResponse \in FailedLookups /\ qpc \in {"people", "aborted"}) =>
        /\ qpc = "people"
        /\ ExtractPeopleFromWikipedia(company.wikipediaUrl, company.name, wikiResponse)
             = [thrown |-> FALSE, people |-> <<>>]
        /\ dbPeople = SavePeople(sitePeople)

C16_Witness ==
    /\ wikiResponse = NetworkError
    /\ qpc = "people"
    /\ dbPeople # <<>>
    /\ dbPeople = SavePeople(sitePeople)

-----------------------------------------------------------------------------
(* Properties of the store *)

\* the rows of a company in a table, without their ids
Payloads(stored, companyId) ==
    Bind(SelectSeq(stored, LAMBDA r : r.companyId = companyId), LAMBDA own :
      [i \in 1..Len(own) |-> own[i].row])

\* C13: when a save function has returned for company c, the rows of c in
\* its table are exactly the rows of this run, in order, the rows of every
\* other company are the ones that were there before the call, and the other
\* tables are untouched.
C13_SaveReplacesCompanyRows ==
    saving.phase = "done" =>
        /\ Payloads(store[saving.table], saving.companyId) = saving.rows
        /\ \A other \in CompanyIds \ {saving.companyId} :
              SelectSeq(store[saving.table], LAMBDA r : r.companyId = other)
                = SelectSeq(snapshot[saving.table], LAMBDA r : r.companyId = other)
        /\ \A t \in 1..Len(TABLES) : t # saving.table => store[t] = snapshot[t]

C13_Witness ==
    /\ saving.phase = "done"
    /\ storeRuns > 1
    /\ saving.rows # <<>>
    /\ Payloads(snapshot[saving.table], saving.companyId) # <<>>
    /\ Payloads(snapshot[saving.table], saving.companyId) # saving.rows
    /\ \E other \in CompanyIds \ {saving.companyId} :
          Payloads(store[saving.table], other) # <<>>

\* C20: when a save function fails or is interrupted, the table holds for
\* the company either the complete set of rows it held before the call or
\* the complete set of rows of this run.
C20_SaveIsAtomic ==
    saving.phase = "failed" =>
        Payloads(store[saving.table], saving.companyId)
            \in {Payloads(snapshot[saving.table], saving.companyId), saving.rows}

-----------------------------------------------------------------------------
(* Properties of a crawl: unparsable base, content of the returned Map *)

\* the normalized base URLs of the environment that new URL() rejects
UnparsableBases == {b \in {NormalizeBase(u) : u \in BaseUrls} : ~ParseUrl(b).ok}

\* C21: a crawl whose base URL cannot be parsed puts nothing on the network:
\* its only fetchPage call is rejected by the URL parser of fetch(), no
\* exception escapes, and the Map it returns holds the failed '/' result
\* alone.
C21_UnparsableBaseFailsOffline ==
    (cpc # "idle" /\ normalizedBase \in UnparsableBases) =>
        /\ pc # "threw"
        /\ settled \in {NotSettled, InvalidUrlError}
        /\ attempted = <<normalizedBase>>
        /\ pc = "returned" =>
              /\ settled = InvalidUrlError
              /\ fetchRet = CatchFailure(normalizedBase, InvalidUrlError.thrown)
        /\ cpc = "done" =>
              results = << [key |-> "/",
                            value |-> CatchFailure(normalizedBase, InvalidUrlError.thrown)] >>

C21_Witness ==
    /\ cpc = "done"
    /\ normalizedBase = "http//acme.com"
    /\ Len(results) = 1
    /\ ~results[1].value.success
    /\ results[1].value.error = "Failed to parse URL"
    /\ crawlRequests = 1

\* the entries of the Map once the homepage result is stored: '/' first, and
\* a success under every other key
HomepageKept ==
    cpc \in {"subpaths", "done"} =>
        /\ results # <<>>
        /\ results[1].key = "/"
        /\ \A i \in 1..Len(results) : results[i].key # "/" => results[i].value.success

\* C24: the Map of a crawl always has the key '/', every entry under another
\* key is a successful result, and a failed sub-path fetch leaves the Map as
\* it was.
C24_HomepageKeptSubpathsSuccessful ==
    /\ []HomepageKept
    /\ [][(cpc = "subpaths" /\ pc = "returned" /\ ~fetchRet.success) => results' = results]_vars

C24_Witness ==
    /\ cpc = "done"
    /\ Len(results) > 1
    /\ Len(results) < Len(pathsToFetch) + 1
    /\ ~fetchRet.success
    /\ \E i \in 1..Len(pathsToFetch) : ~MapHas(results, pathsToFetch[i])

-----------------------------------------------------------------------------
(* Termination of fetchPage *)

\* C22: every fetchPage call that was started returns, whatever the server
\* does before the headers or while the body is read.
C22_FetchPageReturns ==
    (pc \in {"waiting", "fetching", "reading"}) ~> (pc = "returned")

-----------------------------------------------------------------------------
(* Properties of the ranking of selectBestPaths *)

\* the contact read whose value a path carries
ContactOf(path) ==
    readContacts[CHOOSE i \in 1..Len(readContacts) : readContacts[i].value = path.value]

\* the score the category of a candidate stands for
CategoryScore(path) ==
    CASE path.type = "named_email" -> 100
      [] path.type = "inbox" ->
           (IF ContactOf(path).emailType \in {"partnerships", "partner", "sponsorship", "sponsor"}
            THEN 75
            ELSE IF ContactOf(path).emailType \in {"marketing", "brand"} THEN 70
            ELSE 30)
      [] path.type = "agency" -> (IF ContactOf(path).pathType = "agency" THEN 50 ELSE 45)
      [] path.type = "form" -> 40
      [] path.type = "linkedin" -> 25

\* when a candidate was appended: the loop that pushed it, and the position
\* of its person or contact in the list the loop walks
PushOrder(path) ==
    CASE path.type = "named_email" ->
           <<1, CHOOSE p \in 1..Len(dbPeople) : dbPeople[p].name = path.personName>>
      [] path.type = "linkedin" -> <<6, 0>>
      [] OTHER ->
           << CASE path.type = "inbox" /\ path.score > 30 -> 2
                [] path.type = "agency" -> 3
                [] path.type = "form" -> 4
                [] OTHER -> 5,
              CHOOSE i \in 1..Len(readContacts) : readContacts[i].value = path.value >>

PushedBefore(a, b) ==
    PushOrder(a)[1] < PushOrder(b)[1]
      \/ (PushOrder(a)[1] = PushOrder(b)[1] /\ PushOrder(a)[2] < PushOrder(b)[2])

\* C23: every candidate has the fixed score of its category, rankedPaths is
\* in descending score order with candidates of equal score in the order
\* they were appended, the primary is its first element and the backup its
\* second (null when there is none), so primary.score >= backup.score.
C23_FixedScoresStableOrder ==
    qpc = "selected" =>
        /\ \A k \in 1..Len(qRankedPaths) :
              /\ qRankedPaths[k].score = CategoryScore(qRankedPaths[k])
              /\ qRankedPaths[k].score \in {100, 75, 70, 50, 45, 40, 30, 25}
        /\ \A i, j \in 1..Len(qRankedPaths) :
              i < j =>
                /\ qRankedPaths[i].score >= qRankedPaths[j].score
                /\ qRankedPaths[i].score = qRankedPaths[j].score
                      => PushedBefore(qRankedPaths[i], qRankedPaths[j])
        /\ selection.primary = qRankedPaths[1]
        /\ selection.backup = IF Len(qRankedPaths) > 1 THEN qRankedPaths[2] ELSE NoPath
        /\ selection.backup # NoPath => selection.primary.score >= selection.backup.score

C23_Witness ==
    /\ qpc = "selected"
    /\ Len(qRankedPaths) >= 5
    /\ selection.backup # NoPath
    /\ selection.primary.score > selection.backup.score
    /\ \E i, j \in 1..Len(qRankedPaths) :
          /\ i < j
          /\ qRankedPaths[i].score = qRankedPaths[j].score
          /\ qRankedPaths[i].type = "agency"
    /\ \E k \in 1..Len(qRankedPaths) : qRankedPaths[k].score = 30

-----------------------------------------------------------------------------
(* Properties of the qualification score and of a run on a dead site *)

\* the weight of a category in SIGNAL_PATTERNS
WeightOf(type) ==
    SIGNAL_PATTERNS[CHOOSE k \in 1..Len(SIGNAL_PATTERNS) : SIGNAL_PATTERNS[k].type = type].score

RECURSIVE SumOfWeights(_)
SumOfWeights(types) ==
    IF types = {} THEN 0
    ELSE LET t == CHOOSE x \in types : TRUE
         IN WeightOf(t) + SumOfWeights(types \ {t})

AllCategories == {SIGNAL_PATTERNS[k].type : k \in 1..Len(SIGNAL_PATTERNS)}

\* C25: the score stored for the company is the sum of the weights of the
\* categories among its signals, between 0 and 135, the sum of the seven
\* weights; the status stored with a score is 'qualified' exactly when the
\* score is at least 50, and 'unqualified' otherwise.
C25_ScoreIsSumOfWeights ==
    qpc # "crawled" =>
        /\ company.score = SumOfWeights({dbSignals[i].type : i \in 1..Len(dbSignals)})
        /\ company.score = CalculateQualificationScore(dbSignals)
        /\ SumOfWeights(AllCategories) = 135
        /\ company.score \in 0..135
        /\ company.status = (IF company.score >= 50 THEN "qualified" ELSE "unqualified")
        /\ \A s \in 0..135 :
              UpdateCompanyQualification(company, s)
                = [company EXCEPT !.score = s,
                                  !.status = IF s >= 50 THEN "qualified" ELSE "unqualified"]

C25_Witness ==
    /\ qpc = "analyzed"
    /\ Len(dbSignals) >= 3
    /\ company.score >= 50
    /\ company.score < 135
    /\ company.status = "qualified"

HomepageFetchFailed == ~qCrawlResults[1].value.success

\* C26: a run whose homepage fetch failed goes through all its steps: it
\* stores no signal and no contact, score 0 and status 'unqualified' in
\* place of what an earlier run stored, and selects the LinkedIn fallback as
\* primary.
C26_DeadSiteRunCompletes ==
    HomepageFetchFailed =>
        /\ qpc \in {"analyzed", "extracted", "people", "selected"} =>
              /\ dbSignals = <<>>
              /\ company.score = 0
              /\ company.status = "unqualified"
        /\ qpc \in {"extracted", "people", "selected"} =>
              /\ qContacts = <<>>
              /\ contactPaths = <<>>
        /\ qpc = "selected" =>
              /\ selection.selected
              /\ selection.primary.type = "linkedin"

\* the run of a company an earlier run had qualified or the user had
\* rejected, with the contact paths of the earlier run still stored
C26_Witness ==
    /\ HomepageFetchFailed
    /\ qpc = "analyzed"
    /\ contactPaths = EarlierContactPaths
    /\ dbSignals = <<>>
    /\ company.score = 0
    /\ company.status = "unqualified"

-----------------------------------------------------------------------------
(* Properties of the selection and of the is_primary flag *)

\* C27: when selectBestPaths returns a backup, its value differs from the
\* value of the primary.
C27_BackupDiffersFromPrimary ==
    (qpc = "selected" /\ selection.backup # NoPath) =>
        selection.backup.value # selection.primary.value

HasContact ==
    \E i \in 1..Len(contactPaths) : contactPaths[i].pathType \in {"email", "agency", "form"}

\* C28: the primary is the LinkedIn fallback exactly when the company has no
\* stored contact of type email, agency or form; the backup is then null; in
\* every other case there is a backup and the score of the primary is above 25.
C28_FallbackOnlyWithoutContacts ==
    qpc = "selected" =>
        /\ (selection.primary.type = "linkedin") <=> ~HasContact
        /\ ~HasContact => selection.backup = NoPath
        /\ HasContact => (selection.backup # NoPath /\ selection.primary.score > 25)

C28_Witness ==
    /\ qpc = "selected"
    /\ Len(contactPaths) = 1
    /\ contactPaths[1].pathType = "email"
    /\ selection.primary.type = "inbox"
    /\ selection.primary.score = 30
    /\ selection.backup.type = "linkedin"

Flagged(rows) == {i \in 1..Len(rows) : rows[i].isPrimary}

\* C29: at most one contact path of the company is flagged is_primary; after
\* saveContacts it is the first, highest-confidence contact; after
\* savePathSelection it is the row whose value is the value of the primary,
\* and no row when the primary is the LinkedIn fallback.
C29_OnePrimaryFlag ==
    /\ Cardinality(Flagged(contactPaths)) <= 1
    /\ qpc \in {"extracted", "people"} =>
          /\ contactPaths # <<>> => Flagged(contactPaths) = {1}
          /\ \A i \in Flagged(contactPaths), j \in 1..Len(contactPaths) :
                contactPaths[i].confidenceScore >= contactPaths[j].confidenceScore
    /\ qpc = "selected" =>
          /\ Flagged(contactPaths)
               = {i \in 1..Len(contactPaths) :
                    selection.primary.type # "linkedin"
                      /\ contactPaths[i].value = selection.primary.value}
          /\ selection.primary.type # "linkedin" => Flagged(contactPaths) # {}

C29_Witness ==
    /\ qpc = "selected"
    /\ Cardinality(Flagged(contactPaths)) = 1
    /\ 1 \notin Flagged(contactPaths)
    /\ selection.primary.type = "form"

-----------------------------------------------------------------------------
(* Overlapping rateLimitedFetch invocations *)

\* C30: the requests of any two invocations of rateLimitedFetch are started
\* at least RATE_LIMIT_MS apart, also when the invocations overlap.
C30_ConcurrentIntervalKept ==
    \A a, b \in Callers :
        (a # b /\ calls[a].pc = "started" /\ calls[b].pc = "started"
           /\ calls[a].startedAt <= calls[b].startedAt)
          => calls[b].startedAt - calls[a].startedAt >= RATE_LIMIT_MS

====
